---- MODULE Spec2Model ----
(***************************************************************************)
(* Model of the experiment repository's embedding cache                    *)
(* (src/utils/embedding_cache.py): the cache key derivation and the        *)
(* on-disk store with its save / load / exists / delete / list operations. *)
(*                                                                         *)
(* The store is a directory per cache key holding three files.  save       *)
(* writes them in place, one after the other, so it is modelled step by    *)
(* step, one action per file system call that changes the store; an I/O    *)
(* error (handled by save's except clause) or a crash of the process (no   *)
(* handler runs) may end it at any step.  The other operations run to      *)
(* completion between two saves; what the last one returned is kept in     *)
(* `last`.  shutil.rmtree is taken to succeed whenever it is called: the   *)
(* environment refusing a deletion is outside the fault model.  np.array   *)
(* is the one of numpy >= 1.24, which raises on rows of different lengths. *)
(* Floats are modelled by integers standing for distinct float64 values;   *)
(* strings that are edited are sequences of one-character strings.         *)
(*                                                                         *)
(*                                                                         *)
(* The stratified sampler (src/utils/sampler.py) groups the queries by the *)
(* MD5 prefix of their profile's JSON text and draws with the process-wide *)
(* generator of the random module.  JSON texts are built as json.dumps     *)
(* builds them; MD5 is the table of the true digests of the texts that     *)
(* occur in the model.  The Mersenne Twister is abstracted by a small      *)
(* linear congruential generator: what the model keeps of it is that a     *)
(* draw is a function of the generator's state and advances that state,    *)
(* and that random.seed sets the state.                                    *)
(*                                                                         *)
(* The evaluators (src/implementations/evaluators) are pure functions of   *)
(* the query results.  Their float scores are fixed-point numbers with     *)
(* four decimals (One is 1.0); 1/log2(n) is a table of rounded values.     *)
(*                                                                         *)
(* Spec        the store under failing and crashing saves, two keys        *)
(* SpecRT      saves into an empty cache directory, all lists up to MaxLen *)
(* SpecKey     the cache keys of two configurations                        *)
(* SpecSampler one sample_queries call, every query list up to MaxQueries  *)
(* SpecRepro   several sample_queries calls on one query list              *)
(* SpecSeed    the seeds derived from two pipeline configurations          *)
(* SpecEval    the two evaluators on a batch, before and after one more    *)
(*             query is added to it                                        *)
(* SpecScore   the metrics of both evaluators on one query, at several k    *)
(* SpecExtract the document-id extraction and the metrics on documents     *)
(*             without metadata or with a null one                         *)
(* SpecBatch   the batch evaluations with one malformed record             *)
(* SpecLoad    the loading of the test-query file and its hand-over        *)
(* SpecRuns    experiment runs that share the cache directory              *)
(* SpecFrame   the store under keys whose directories are nested           *)
(***************************************************************************)
EXTENDS Integers, Sequences, FiniteSets, TLC

VARIABLES
    store,    \* cache_dir: for each key its directory and the three files
    pc,       \* position of the save in progress, "idle" when there is none
    cur,      \* arguments of the save in progress
    now,      \* the wall clock read by datetime.now()
    last,     \* the last completed operation and what it returned
    history,  \* per key, the inputs of the successful saves, oldest first
    nSaves,   \* number of saves begun
    cfgA, cfgB, keyA, keyB,  \* two configurations and their cache keys
    rng,          \* state of the random module's process-wide generator
    sampler,      \* the StratifiedSampler in use: its seed
    all_queries,  \* the query list handed to sample_queries
    sample_size,  \* the sample_size handed to sample_queries
    strategy,     \* the strategy handed to sample_queries
    calls,        \* the completed sample_queries calls, oldest first
    nDraws,       \* draws other code of the process made from the generator
    seedCfgA, seedCfgB, seedA, seedB, \* two config dicts and their seeds
    batch,        \* the query results handed to the evaluators
    kval,         \* the k of the SearchMetricsEvaluator's k_values
    reports,      \* what evaluate returned, oldest first
    summaries,    \* what evaluate_all_queries returned, oldest first
    query_result, \* one query result, scored at several k
    scored,       \* for each k, the scores of query_result once they are computed
    doc_ids,      \* what _extract_doc_id gave on its retrieved documents so far
    file_lines,     \* the lines of the file at test_queries_path
    has_generator,  \* the components include a response generator
    test_queries,   \* what _load_test_queries gave
    to_evaluator,   \* the queries the retrieval loop evaluated
    to_sampler,     \* the list handed to sample_queries
    runs            \* what _process_documents did in each experiment run so far

cacheVars == <<store, pc, cur, now, last, history, nSaves>>
keyVars == <<cfgA, cfgB, keyA, keyB>>
samplerVars == <<rng, sampler, all_queries, sample_size, strategy, calls, nDraws>>
seedVars == <<seedCfgA, seedCfgB, seedA, seedB>>
evalVars == <<batch, kval, reports, summaries>>
scoreVars == <<query_result, scored, doc_ids>>
loadVars == <<file_lines, has_generator, test_queries, to_evaluator, to_sampler>>
runVars == <<runs>>
vars == <<store, pc, cur, now, last, history, nSaves, cfgA, cfgB, keyA, keyB,
          rng, sampler, all_queries, sample_size, strategy, calls, nDraws,
          seedCfgA, seedCfgB, seedA, seedB, batch, kval, reports, summaries,
          query_result, scored, doc_ids,
          file_lines, has_generator, test_queries, to_evaluator, to_sampler, runs>>

---------------------------------------------------------------------------
(* Bounds of the model *)

\* longest documents / embeddings list of the round-trip specification
MaxLen == 2
\* largest embedding dimension
MaxDim == 1
\* last clock reading
MaxClock == 2
\* saves begun in one behaviour
MaxSaves == 2
\* longest embedder model name
MaxNameLen == 2
\* longest query list handed to the sampler
MaxQueries == 3
\* sample_queries calls in one behaviour
MaxCalls == 2
\* draws by other code of the process in one behaviour
MaxDraws == 1
\* longest list of retrieved documents
MaxRetrieved == 3
\* longest ground truth list
MaxGT == 2
\* largest k
MaxK == 3
\* longest retrieved list whose documents may lack a usable metadata
MaxHard == 2
\* most lines of a test-query file
MaxLines == 3
\* experiment runs in one behaviour
MaxRuns == 3

Keys == {"k1", "k2"}
RTKeys == {"k1"}
DocVals == {"a", "b"}
FloatVals == {1, 2}

SeqsUpTo(S, n) == UNION {[1..m -> S] : m \in 0..n}

Vectors == SeqsUpTo(FloatVals, MaxDim)
Documents(n) == SeqsUpTo(DocVals, n)
Embeddings(n) == SeqsUpTo(Vectors, n)

\* the lists saved in the crash specification: empty ones and two-element
\* ones, so that a save may also get lists of different lengths
SmallDocs == {<<>>, <<"a", "b">>}
SmallEmbs == {<<>>, <<(<<2>>), (<<1>>)>>}

---------------------------------------------------------------------------
(* Files and directories *)

NoDocs == <<>>
NoArray == [shape |-> <<>>, data |-> <<>>]
NoMeta == [cache_key |-> "", document_count |-> 0,
           embedding_dimension |-> 0, created_at |-> 0]

\* a file is absent, present but truncated ("partial": open() created or
\* truncated it and its content was not written to the end), or complete
Absent(null) == [st |-> "absent", data |-> null]
Partial(null) == [st |-> "partial", data |-> null]
Complete(content) == [st |-> "complete", data |-> content]

NoDir == [dir |-> FALSE, docs |-> Absent(NoDocs), emb |-> Absent(NoArray),
          meta |-> Absent(NoMeta)]

\* Path.exists() of a file
FileExists(f) == f.st # "absent"

\* pickle.load / np.load / json.load succeed on a completely written file only
Readable(f) == f.st = "complete"

---------------------------------------------------------------------------
(* numpy conversions of save and load *)

RECURSIVE Flatten(_)
Flatten(rows) ==
    IF rows = <<>> THEN <<>> ELSE Head(rows) \o Flatten(Tail(rows))

\* np.array(embeddings) raises ValueError (inhomogeneous shape) on rows of
\* different lengths
IsRagged(embeddings) ==
    \E i, j \in 1..Len(embeddings) : Len(embeddings[i]) # Len(embeddings[j])

\* np.array(embeddings): an empty list gives shape (0,), n rows of d floats
\* give shape (n, d) with the data in row-major order
NpArray(embeddings) ==
    IF embeddings = <<>>
    THEN [shape |-> <<0>>, data |-> <<>>]
    ELSE [shape |-> <<Len(embeddings), Len(embeddings[1])>>,
          data |-> Flatten(embeddings)]

\* a tolist() that forgets the shape and returns the flat data
NpTolistFlat(a) == a.data

\* embeddings_array.tolist()
NpTolist(a) ==
    IF Len(a.shape) = 1
    THEN a.data
    ELSE [i \in 1..a.shape[1] |->
            SubSeq(a.data, (i - 1) * a.shape[2] + 1, i * a.shape[2])]

---------------------------------------------------------------------------
(* Read operations of EmbeddingCache, as functions of the store *)

\* exists(cache_key): all three files are present
Exists(st, k) ==
    /\ FileExists(st[k].docs)
    /\ FileExists(st[k].emb)
    /\ FileExists(st[k].meta)

\* load(cache_key): "miss" is the ValueError raised when exists() is false,
\* "error" an exception of pickle.load / np.load / json.load, re-raised
Load(st, k) ==
    IF ~Exists(st, k)
    THEN [status |-> "miss", documents |-> <<>>, embeddings |-> <<>>]
    ELSE IF Readable(st[k].docs) /\ Readable(st[k].emb) /\ Readable(st[k].meta)
    THEN [status |-> "ok", documents |-> st[k].docs.data,
          embeddings |-> NpTolist(st[k].emb.data)]
    ELSE [status |-> "error", documents |-> <<>>, embeddings |-> <<>>]

\* get_metadata(cache_key): None when exists() is false or json.load fails
GetMetadata(st, k) ==
    IF Exists(st, k) /\ Readable(st[k].meta)
    THEN [some |-> TRUE, meta |-> st[k].meta.data]
    ELSE [some |-> FALSE, meta |-> NoMeta]

\* the keys list_caches() keeps: directories of cache_dir with metadata
Listed(st) == {k \in Keys : st[k].dir /\ GetMetadata(st, k).some}

Summary(st, k) == [cache_key |-> k, metadata |-> GetMetadata(st, k).meta]

\* list_caches(): the summaries sorted by created_at, newest first; iterdir()
\* yields the directories in any order and sorted() is stable, so entries
\* with equal created_at come in any order
ListCaches(st) ==
    LET ks == Listed(st)
        orders == {s \in [1..Cardinality(ks) -> ks] :
                     \A i, j \in 1..Cardinality(ks) : i # j => s[i] # s[j]}
        sorted == {s \in orders : \A i, j \in 1..Cardinality(ks) : i < j =>
                     st[s[i]].meta.data.created_at >= st[s[j]].meta.data.created_at}
    IN {[i \in 1..Cardinality(ks) |-> Summary(st, s[i])] : s \in sorted}

---------------------------------------------------------------------------
(* Write operations on the store *)

\* the path cache_dir / j lies under the directory cache_dir / k: k followed
\* by a "/" is the beginning of j
Under(j, k) == Len(j) > Len(k) /\ SubSeq(j, 1, Len(k) + 1) = k \o <<"/">>

\* shutil.rmtree(cache_path): the directory goes with all that is under it
Rmtree(st, k) == [j \in DOMAIN st |-> IF j = k \/ Under(j, k) THEN NoDir ELSE st[j]]

\* a cleanup that removes the truncated files only and keeps the others
CleanupTruncatedFilesOnly(st, k) ==
    [st EXCEPT ![k].docs = IF @.st = "partial" THEN Absent(NoDocs) ELSE @,
               ![k].emb = IF @.st = "partial" THEN Absent(NoArray) ELSE @,
               ![k].meta = IF @.st = "partial" THEN Absent(NoMeta) ELSE @]

\* _cleanup_partial_cache(cache_path)
CleanupPartialCache(st, k) == IF st[k].dir THEN Rmtree(st, k) ELSE st

\* cache_path.mkdir(parents=True, exist_ok=True): the directories above it
\* are made as well
Mkdir(st, k) ==
    [j \in DOMAIN st |-> IF j = k \/ Under(k, j) THEN [st[j] EXCEPT !.dir = TRUE]
                         ELSE st[j]]

\* open(path, 'wb') / open(path, 'w'): creates the file or truncates it
OpenDocsFile(st, k) == [st EXCEPT ![k].docs = Partial(NoDocs)]
OpenEmbFile(st, k) == [st EXCEPT ![k].emb = Partial(NoArray)]
OpenMetaFile(st, k) == [st EXCEPT ![k].meta = Partial(NoMeta)]

\* pickle.dump(processed_documents, f)
WriteDocs(st, k, documents) == [st EXCEPT ![k].docs = Complete(documents)]

\* np.save(path, np.array(embeddings))
WriteEmb(st, k, embeddings) == [st EXCEPT ![k].emb = Complete(NpArray(embeddings))]

\* the metadata dict of save
Metadata(k, documents, embeddings, t) ==
    [cache_key |-> k,
     document_count |-> Len(documents),
     embedding_dimension |-> IF embeddings # <<>> THEN Len(embeddings[1]) ELSE 0,
     created_at |-> t]

\* json.dump(metadata, f)
WriteMeta(st, k, documents, embeddings, t) ==
    [st EXCEPT ![k].meta = Complete(Metadata(k, documents, embeddings, t))]

\* delete_cache(cache_key): its return value and the store it leaves
DeleteCacheResult(st, k) == st[k].dir
DeleteCache(st, k) == IF st[k].dir THEN Rmtree(st, k) ELSE st

---------------------------------------------------------------------------
(* The cache key: EmbeddingCache.generate_cache_key *)

NameChars == {"a", "-", ".", "/"}
\* EmbedderConfig.model_name is any str, the empty one included
ModelNames == SeqsUpTo(NameChars, MaxNameLen)

NoChunkType == <<"n", "o", "_", "c", "h", "u", "n", "k">>
RecursiveType == <<"r", "e", "c", "u", "r", "s", "i", "v", "e">>
FixedType == <<"f", "i", "x", "e", "d">>
EmptyType == <<>>
\* ChunkerConfig.type is any str, the empty one included
ChunkerTypes == {NoChunkType, RecursiveType, FixedType, EmptyType}

\* an Optional[int]: None, or an int
None == [some |-> FALSE, val |-> 0]
Some(n) == [some |-> TRUE, val |-> n]
OptSizes == {None, Some(1), Some(12)}

\* (EmbedderConfig.model_name, ChunkerConfig.type, .chunk_size, .chunk_overlap)
Configs == [model_name : ModelNames, type : ChunkerTypes,
            chunk_size : OptSizes, chunk_overlap : OptSizes]

\* str.replace(old, new) for one-character old and new
Replace(str, old, new) ==
    [i \in 1..Len(str) |-> IF str[i] = old THEN new ELSE str[i]]

DigitChar(d) ==
    CASE d = 0 -> "0" [] d = 1 -> "1" [] d = 2 -> "2" [] d = 3 -> "3"
      [] d = 4 -> "4" [] d = 5 -> "5" [] d = 6 -> "6" [] d = 7 -> "7"
      [] d = 8 -> "8" [] d = 9 -> "9"

\* f"{n}" of an int n >= 0
RECURSIVE IntStr(_)
IntStr(n) ==
    IF n < 10 THEN <<DigitChar(n)>> ELSE IntStr(n \div 10) \o <<DigitChar(n % 10)>>

\* lines 39-46: the chunker part of the key
ChunkPart(cfg) ==
    IF cfg.type = NoChunkType
    THEN NoChunkType
    ELSE cfg.type
         \o (IF cfg.chunk_size.some THEN <<"_">> \o IntStr(cfg.chunk_size.val) ELSE <<>>)
         \o (IF cfg.chunk_overlap.some THEN <<"_">> \o IntStr(cfg.chunk_overlap.val) ELSE <<>>)

\* line 36: the embedder part of the key
ModelPart(cfg) == Replace(Replace(cfg.model_name, "-", "_"), ".", "_")

\* generate_cache_key(embedder_config, chunker_config)
GenerateCacheKey(cfg) == ModelPart(cfg) \o <<"_">> \o ChunkPart(cfg)

---------------------------------------------------------------------------
(* json.dumps of the dicts the sampler hashes, and hashlib.md5 *)

\* a dict is the sequence of its entries in insertion order; the value of an
\* entry is a str, an int or a list of str
StrEntry(k, v) == [key |-> k, kind |-> "str", items |-> <<v>>]
IntEntry(k, v) == [key |-> k, kind |-> "int", items |-> <<v>>]
ListEntry(k, vs) == [key |-> k, kind |-> "list", items |-> vs]
\* an entry whose value is a dict
DictEntry(k, d) == [key |-> k, dict |-> d]

\* ", ".join(strs): the item separator of json.dumps
RECURSIVE JoinComma(_)
JoinComma(strs) ==
    IF Len(strs) = 0 THEN ""
    ELSE IF Len(strs) = 1 THEN strs[1]
    ELSE strs[1] \o ", " \o JoinComma(Tail(strs))

\* the JSON text of a str without characters to escape
JsonStr(v) == "\"" \o v \o "\""

\* the JSON text of the value of an entry
JsonValue(e) ==
    CASE e.kind = "str" -> JsonStr(e.items[1])
      [] e.kind = "int" -> e.items[1]
      [] e.kind = "list" ->
            "[" \o JoinComma([i \in 1..Len(e.items) |-> JsonStr(e.items[i])]) \o "]"

\* the position of a key among the keys of the model in the order of str
KeyRank(k) ==
    CASE k = "chunk_size" -> 1 [] k = "chunker" -> 2 [] k = "embedder" -> 3
      [] k = "interest_job" -> 4 [] k = "major" -> 5 [] k = "model_name" -> 6
      [] k = "retriever" -> 7 [] k = "top_k" -> 8 [] k = "type" -> 9

\* sorted(...) with one more item
RECURSIVE InsertByKey(_, _)
InsertByKey(e, sorted) ==
    IF sorted = <<>> THEN <<e>>
    ELSE IF KeyRank(e.key) < KeyRank(sorted[1].key) THEN <<e>> \o sorted
    ELSE <<sorted[1]>> \o InsertByKey(e, Tail(sorted))

\* a serialization that leaves the entries in insertion order
KeepInsertionOrder(d) == d

\* sort_keys=True: the entries of a dict sorted by key
RECURSIVE SortKeys(_)
SortKeys(d) ==
    IF d = <<>> THEN <<>> ELSE InsertByKey(d[1], SortKeys(Tail(d)))

\* json.dumps(d, sort_keys=True) of a dict of str, int and list values
JsonDumpsDict(d) ==
    LET es == SortKeys(d)
    IN "{" \o JoinComma([i \in 1..Len(es) |->
                            JsonStr(es[i].key) \o ": " \o JsonValue(es[i])])
           \o "}"

\* json.dumps(d, sort_keys=True) of a dict of such dicts
JsonDumpsConfig(d) ==
    LET es == SortKeys(d)
    IN "{" \o JoinComma([i \in 1..Len(es) |->
                            JsonStr(es[i].key) \o ": " \o JsonDumpsDict(es[i].dict)])
           \o "}"

\* hashlib.md5(str.encode()).hexdigest()[:8], for the texts of the model
Md5Hex8(str) ==
    CASE str = "{\"interest_job\": [\"dev\", \"pm\"], \"major\": \"cs\"}"
         -> <<"3", "e", "5", "3", "3", "1", "9", "3">>
      [] str = "{\"major\": \"cs\", \"interest_job\": [\"dev\", \"pm\"]}"
         -> <<"9", "a", "d", "6", "f", "a", "d", "e">>
      [] str = "{\"interest_job\": [\"pm\", \"dev\"], \"major\": \"cs\"}"
         -> <<"1", "2", "c", "7", "c", "5", "b", "f">>
      [] str = "{\"major\": \"cs\", \"interest_job\": [\"pm\", \"dev\"]}"
         -> <<"2", "1", "1", "4", "7", "3", "5", "8">>
      [] str = "{\"major\": \"m66465\"}"
         -> <<"b", "0", "d", "c", "f", "8", "e", "c">>
      [] str = "{\"major\": \"m73197\"}"
         -> <<"b", "0", "d", "c", "f", "8", "e", "c">>
      [] str = "{}"
         -> <<"9", "9", "9", "1", "4", "b", "9", "3">>
      [] str = "{\"chunker\": {\"chunk_size\": 256, \"type\": \"fixed\"}, \"embedder\": {\"model_name\": \"small\", \"type\": \"openai\"}, \"retriever\": {\"top_k\": 5, \"type\": \"chroma\"}}"
         -> <<"c", "5", "6", "4", "f", "0", "e", "1">>
      [] str = "{\"embedder\": {\"type\": \"openai\", \"model_name\": \"small\"}, \"chunker\": {\"type\": \"fixed\", \"chunk_size\": 256}, \"retriever\": {\"type\": \"chroma\", \"top_k\": 5}}"
         -> <<"0", "d", "1", "b", "6", "9", "e", "d">>
      [] str = "{\"embedder\": {\"type\": \"openai\", \"model_name\": \"small\"}, \"chunker\": {\"type\": \"fixed\", \"chunk_size\": 256}, \"retriever\": {\"top_k\": 5, \"type\": \"chroma\"}}"
         -> <<"b", "c", "b", "c", "2", "6", "b", "4">>
      [] str = "{\"embedder\": {\"type\": \"openai\", \"model_name\": \"small\"}, \"chunker\": {\"chunk_size\": 256, \"type\": \"fixed\"}, \"retriever\": {\"type\": \"chroma\", \"top_k\": 5}}"
         -> <<"a", "4", "5", "1", "2", "c", "3", "4">>
      [] str = "{\"embedder\": {\"type\": \"openai\", \"model_name\": \"small\"}, \"chunker\": {\"chunk_size\": 256, \"type\": \"fixed\"}, \"retriever\": {\"top_k\": 5, \"type\": \"chroma\"}}"
         -> <<"8", "5", "2", "4", "b", "1", "7", "8">>
      [] str = "{\"embedder\": {\"model_name\": \"small\", \"type\": \"openai\"}, \"chunker\": {\"type\": \"fixed\", \"chunk_size\": 256}, \"retriever\": {\"type\": \"chroma\", \"top_k\": 5}}"
         -> <<"1", "6", "3", "5", "a", "a", "2", "2">>
      [] str = "{\"embedder\": {\"model_name\": \"small\", \"type\": \"openai\"}, \"chunker\": {\"type\": \"fixed\", \"chunk_size\": 256}, \"retriever\": {\"top_k\": 5, \"type\": \"chroma\"}}"
         -> <<"5", "3", "3", "e", "c", "8", "7", "6">>
      [] str = "{\"embedder\": {\"model_name\": \"small\", \"type\": \"openai\"}, \"chunker\": {\"chunk_size\": 256, \"type\": \"fixed\"}, \"retriever\": {\"type\": \"chroma\", \"top_k\": 5}}"
         -> <<"1", "c", "9", "d", "8", "2", "5", "0">>
      [] str = "{\"embedder\": {\"model_name\": \"small\", \"type\": \"openai\"}, \"chunker\": {\"chunk_size\": 256, \"type\": \"fixed\"}, \"retriever\": {\"top_k\": 5, \"type\": \"chroma\"}}"
         -> <<"f", "b", "a", "3", "3", "9", "b", "2">>
      [] str = "{\"chunker\": {\"chunk_size\": 256, \"type\": \"fixed\"}, \"embedder\": {\"model_name\": \"small\", \"type\": \"openai\"}, \"retriever\": {\"top_k\": 10, \"type\": \"chroma\"}}"
         -> <<"0", "9", "2", "e", "e", "c", "a", "4">>
      [] str = "{\"embedder\": {\"type\": \"openai\", \"model_name\": \"small\"}, \"chunker\": {\"type\": \"fixed\", \"chunk_size\": 256}, \"retriever\": {\"type\": \"chroma\", \"top_k\": 10}}"
         -> <<"6", "a", "6", "3", "0", "f", "e", "0">>
      [] str = "{\"embedder\": {\"type\": \"openai\", \"model_name\": \"small\"}, \"chunker\": {\"type\": \"fixed\", \"chunk_size\": 256}, \"retriever\": {\"top_k\": 10, \"type\": \"chroma\"}}"
         -> <<"5", "8", "9", "d", "8", "b", "5", "0">>
      [] str = "{\"embedder\": {\"type\": \"openai\", \"model_name\": \"small\"}, \"chunker\": {\"chunk_size\": 256, \"type\": \"fixed\"}, \"retriever\": {\"type\": \"chroma\", \"top_k\": 10}}"
         -> <<"7", "6", "4", "3", "8", "5", "6", "a">>
      [] str = "{\"embedder\": {\"type\": \"openai\", \"model_name\": \"small\"}, \"chunker\": {\"chunk_size\": 256, \"type\": \"fixed\"}, \"retriever\": {\"top_k\": 10, \"type\": \"chroma\"}}"
         -> <<"4", "5", "b", "b", "5", "4", "2", "f">>
      [] str = "{\"embedder\": {\"model_name\": \"small\", \"type\": \"openai\"}, \"chunker\": {\"type\": \"fixed\", \"chunk_size\": 256}, \"retriever\": {\"type\": \"chroma\", \"top_k\": 10}}"
         -> <<"f", "0", "5", "0", "b", "d", "7", "8">>
      [] str = "{\"embedder\": {\"model_name\": \"small\", \"type\": \"openai\"}, \"chunker\": {\"type\": \"fixed\", \"chunk_size\": 256}, \"retriever\": {\"top_k\": 10, \"type\": \"chroma\"}}"
         -> <<"4", "b", "a", "c", "2", "6", "c", "4">>
      [] str = "{\"embedder\": {\"model_name\": \"small\", \"type\": \"openai\"}, \"chunker\": {\"chunk_size\": 256, \"type\": \"fixed\"}, \"retriever\": {\"type\": \"chroma\", \"top_k\": 10}}"
         -> <<"b", "b", "a", "2", "5", "7", "b", "4">>
      [] str = "{\"embedder\": {\"model_name\": \"small\", \"type\": \"openai\"}, \"chunker\": {\"chunk_size\": 256, \"type\": \"fixed\"}, \"retriever\": {\"top_k\": 10, \"type\": \"chroma\"}}"
         -> <<"1", "a", "b", "1", "a", "2", "8", "5">>
      [] str = "{\"chunker\": {\"chunk_size\": 512, \"type\": \"fixed\"}, \"embedder\": {\"model_name\": \"small\", \"type\": \"openai\"}, \"retriever\": {\"top_k\": 5, \"type\": \"chroma\"}}"
         -> <<"a", "6", "a", "2", "3", "6", "8", "3">>
      [] str = "{\"embedder\": {\"type\": \"openai\", \"model_name\": \"small\"}, \"chunker\": {\"type\": \"fixed\", \"chunk_size\": 512}, \"retriever\": {\"type\": \"chroma\", \"top_k\": 5}}"
         -> <<"5", "e", "4", "5", "3", "a", "c", "4">>
      [] str = "{\"embedder\": {\"type\": \"openai\", \"model_name\": \"small\"}, \"chunker\": {\"type\": \"fixed\", \"chunk_size\": 512}, \"retriever\": {\"top_k\": 5, \"type\": \"chroma\"}}"
         -> <<"e", "4", "d", "c", "f", "6", "7", "e">>
      [] str = "{\"embedder\": {\"type\": \"openai\", \"model_name\": \"small\"}, \"chunker\": {\"chunk_size\": 512, \"type\": \"fixed\"}, \"retriever\": {\"type\": \"chroma\", \"top_k\": 5}}"
         -> <<"c", "5", "c", "1", "2", "9", "3", "6">>
      [] str = "{\"embedder\": {\"type\": \"openai\", \"model_name\": \"small\"}, \"chunker\": {\"chunk_size\": 512, \"type\": \"fixed\"}, \"retriever\": {\"top_k\": 5, \"type\": \"chroma\"}}"
         -> <<"a", "6", "8", "8", "d", "a", "d", "a">>
      [] str = "{\"embedder\": {\"model_name\": \"small\", \"type\": \"openai\"}, \"chunker\": {\"type\": \"fixed\", \"chunk_size\": 512}, \"retriever\": {\"type\": \"chroma\", \"top_k\": 5}}"
         -> <<"2", "5", "a", "5", "b", "1", "6", "3">>
      [] str = "{\"embedder\": {\"model_name\": \"small\", \"type\": \"openai\"}, \"chunker\": {\"type\": \"fixed\", \"chunk_size\": 512}, \"retriever\": {\"top_k\": 5, \"type\": \"chroma\"}}"
         -> <<"1", "4", "e", "5", "3", "0", "9", "f">>
      [] str = "{\"embedder\": {\"model_name\": \"small\", \"type\": \"openai\"}, \"chunker\": {\"chunk_size\": 512, \"type\": \"fixed\"}, \"retriever\": {\"type\": \"chroma\", \"top_k\": 5}}"
         -> <<"1", "2", "6", "1", "8", "3", "f", "5">>
      [] str = "{\"embedder\": {\"model_name\": \"small\", \"type\": \"openai\"}, \"chunker\": {\"chunk_size\": 512, \"type\": \"fixed\"}, \"retriever\": {\"top_k\": 5, \"type\": \"chroma\"}}"
         -> <<"b", "b", "4", "3", "a", "1", "3", "4">>
      [] str = "{\"chunker\": {\"chunk_size\": 512, \"type\": \"fixed\"}, \"embedder\": {\"model_name\": \"small\", \"type\": \"openai\"}, \"retriever\": {\"top_k\": 10, \"type\": \"chroma\"}}"
         -> <<"6", "5", "d", "e", "9", "1", "8", "1">>
      [] str = "{\"embedder\": {\"type\": \"openai\", \"model_name\": \"small\"}, \"chunker\": {\"type\": \"fixed\", \"chunk_size\": 512}, \"retriever\": {\"type\": \"chroma\", \"top_k\": 10}}"
         -> <<"2", "c", "2", "c", "e", "7", "5", "2">>
      [] str = "{\"embedder\": {\"type\": \"openai\", \"model_name\": \"small\"}, \"chunker\": {\"type\": \"fixed\", \"chunk_size\": 512}, \"retriever\": {\"top_k\": 10, \"type\": \"chroma\"}}"
         -> <<"e", "e", "5", "d", "7", "7", "e", "4">>
      [] str = "{\"embedder\": {\"type\": \"openai\", \"model_name\": \"small\"}, \"chunker\": {\"chunk_size\": 512, \"type\": \"fixed\"}, \"retriever\": {\"type\": \"chroma\", \"top_k\": 10}}"
         -> <<"4", "6", "6", "d", "7", "8", "0", "d">>
      [] str = "{\"embedder\": {\"type\": \"openai\", \"model_name\": \"small\"}, \"chunker\": {\"chunk_size\": 512, \"type\": \"fixed\"}, \"retriever\": {\"top_k\": 10, \"type\": \"chroma\"}}"
         -> <<"4", "a", "c", "d", "a", "c", "0", "4">>
      [] str = "{\"embedder\": {\"model_name\": \"small\", \"type\": \"openai\"}, \"chunker\": {\"type\": \"fixed\", \"chunk_size\": 512}, \"retriever\": {\"type\": \"chroma\", \"top_k\": 10}}"
         -> <<"d", "c", "6", "8", "5", "8", "4", "1">>
      [] str = "{\"embedder\": {\"model_name\": \"small\", \"type\": \"openai\"}, \"chunker\": {\"type\": \"fixed\", \"chunk_size\": 512}, \"retriever\": {\"top_k\": 10, \"type\": \"chroma\"}}"
         -> <<"5", "d", "f", "f", "4", "5", "9", "8">>
      [] str = "{\"embedder\": {\"model_name\": \"small\", \"type\": \"openai\"}, \"chunker\": {\"chunk_size\": 512, \"type\": \"fixed\"}, \"retriever\": {\"type\": \"chroma\", \"top_k\": 10}}"
         -> <<"0", "8", "b", "1", "b", "e", "b", "a">>
      [] str = "{\"embedder\": {\"model_name\": \"small\", \"type\": \"openai\"}, \"chunker\": {\"chunk_size\": 512, \"type\": \"fixed\"}, \"retriever\": {\"top_k\": 10, \"type\": \"chroma\"}}"
         -> <<"5", "b", "2", "f", "1", "6", "b", "6">>
      [] str = "{\"chunker\": {\"chunk_size\": 256, \"type\": \"fixed\"}, \"embedder\": {\"model_name\": \"large\", \"type\": \"openai\"}, \"retriever\": {\"top_k\": 5, \"type\": \"chroma\"}}"
         -> <<"6", "4", "5", "a", "f", "1", "3", "d">>
      [] str = "{\"embedder\": {\"type\": \"openai\", \"model_name\": \"large\"}, \"chunker\": {\"type\": \"fixed\", \"chunk_size\": 256}, \"retriever\": {\"type\": \"chroma\", \"top_k\": 5}}"
         -> <<"0", "8", "4", "2", "0", "e", "c", "a">>
      [] str = "{\"embedder\": {\"type\": \"openai\", \"model_name\": \"large\"}, \"chunker\": {\"type\": \"fixed\", \"chunk_size\": 256}, \"retriever\": {\"top_k\": 5, \"type\": \"chroma\"}}"
         -> <<"8", "6", "3", "5", "4", "1", "2", "f">>
      [] str = "{\"embedder\": {\"type\": \"openai\", \"model_name\": \"large\"}, \"chunker\": {\"chunk_size\": 256, \"type\": \"fixed\"}, \"retriever\": {\"type\": \"chroma\", \"top_k\": 5}}"
         -> <<"e", "9", "5", "f", "1", "7", "6", "a">>
      [] str = "{\"embedder\": {\"type\": \"openai\", \"model_name\": \"large\"}, \"chunker\": {\"chunk_size\": 256, \"type\": \"fixed\"}, \"retriever\": {\"top_k\": 5, \"type\": \"chroma\"}}"
         -> <<"3", "5", "b", "c", "9", "5", "4", "8">>
      [] str = "{\"embedder\": {\"model_name\": \"large\", \"type\": \"openai\"}, \"chunker\": {\"type\": \"fixed\", \"chunk_size\": 256}, \"retriever\": {\"type\": \"chroma\", \"top_k\": 5}}"
         -> <<"2", "b", "c", "8", "8", "6", "d", "a">>
      [] str = "{\"embedder\": {\"model_name\": \"large\", \"type\": \"openai\"}, \"chunker\": {\"type\": \"fixed\", \"chunk_size\": 256}, \"retriever\": {\"top_k\": 5, \"type\": \"chroma\"}}"
         -> <<"6", "8", "5", "c", "7", "3", "6", "7">>
      [] str = "{\"embedder\": {\"model_name\": \"large\", \"type\": \"openai\"}, \"chunker\": {\"chunk_size\": 256, \"type\": \"fixed\"}, \"retriever\": {\"type\": \"chroma\", \"top_k\": 5}}"
         -> <<"a", "1", "5", "5", "1", "6", "b", "9">>
      [] str = "{\"embedder\": {\"model_name\": \"large\", \"type\": \"openai\"}, \"chunker\": {\"chunk_size\": 256, \"type\": \"fixed\"}, \"retriever\": {\"top_k\": 5, \"type\": \"chroma\"}}"
         -> <<"6", "2", "5", "c", "9", "e", "a", "9">>
      [] str = "{\"chunker\": {\"chunk_size\": 256, \"type\": \"fixed\"}, \"embedder\": {\"model_name\": \"large\", \"type\": \"openai\"}, \"retriever\": {\"top_k\": 10, \"type\": \"chroma\"}}"
         -> <<"3", "5", "a", "a", "6", "a", "d", "1">>
      [] str = "{\"embedder\": {\"type\": \"openai\", \"model_name\": \"large\"}, \"chunker\": {\"type\": \"fixed\", \"chunk_size\": 256}, \"retriever\": {\"type\": \"chroma\", \"top_k\": 10}}"
         -> <<"d", "1", "6", "f", "e", "2", "7", "1">>
      [] str = "{\"embedder\": {\"type\": \"openai\", \"model_name\": \"large\"}, \"chunker\": {\"type\": \"fixed\", \"chunk_size\": 256}, \"retriever\": {\"top_k\": 10, \"type\": \"chroma\"}}"
         -> <<"0", "c", "f", "f", "7", "1", "7", "0">>
      [] str = "{\"embedder\": {\"type\": \"openai\", \"model_name\": \"large\"}, \"chunker\": {\"chunk_size\": 256, \"type\": \"fixed\"}, \"retriever\": {\"type\": \"chroma\", \"top_k\": 10}}"
         -> <<"4", "d", "4", "5", "6", "c", "f", "c">>
      [] str = "{\"embedder\": {\"type\": \"openai\", \"model_name\": \"large\"}, \"chunker\": {\"chunk_size\": 256, \"type\": \"fixed\"}, \"retriever\": {\"top_k\": 10, \"type\": \"chroma\"}}"
         -> <<"6", "b", "9", "3", "4", "f", "9", "b">>
      [] str = "{\"embedder\": {\"model_name\": \"large\", \"type\": \"openai\"}, \"chunker\": {\"type\": \"fixed\", \"chunk_size\": 256}, \"retriever\": {\"type\": \"chroma\", \"top_k\": 10}}"
         -> <<"0", "8", "8", "3", "4", "6", "3", "2">>
      [] str = "{\"embedder\": {\"model_name\": \"large\", \"type\": \"openai\"}, \"chunker\": {\"type\": \"fixed\", \"chunk_size\": 256}, \"retriever\": {\"top_k\": 10, \"type\": \"chroma\"}}"
         -> <<"1", "f", "c", "7", "a", "a", "a", "0">>
      [] str = "{\"embedder\": {\"model_name\": \"large\", \"type\": \"openai\"}, \"chunker\": {\"chunk_size\": 256, \"type\": \"fixed\"}, \"retriever\": {\"type\": \"chroma\", \"top_k\": 10}}"
         -> <<"2", "3", "f", "f", "e", "e", "9", "f">>
      [] str = "{\"embedder\": {\"model_name\": \"large\", \"type\": \"openai\"}, \"chunker\": {\"chunk_size\": 256, \"type\": \"fixed\"}, \"retriever\": {\"top_k\": 10, \"type\": \"chroma\"}}"
         -> <<"c", "3", "1", "d", "b", "8", "c", "c">>
      [] str = "{\"chunker\": {\"chunk_size\": 512, \"type\": \"fixed\"}, \"embedder\": {\"model_name\": \"large\", \"type\": \"openai\"}, \"retriever\": {\"top_k\": 5, \"type\": \"chroma\"}}"
         -> <<"c", "e", "a", "3", "c", "2", "7", "2">>
      [] str = "{\"embedder\": {\"type\": \"openai\", \"model_name\": \"large\"}, \"chunker\": {\"type\": \"fixed\", \"chunk_size\": 512}, \"retriever\": {\"type\": \"chroma\", \"top_k\": 5}}"
         -> <<"f", "c", "f", "7", "f", "c", "c", "8">>
      [] str = "{\"embedder\": {\"type\": \"openai\", \"model_name\": \"large\"}, \"chunker\": {\"type\": \"fixed\", \"chunk_size\": 512}, \"retriever\": {\"top_k\": 5, \"type\": \"chroma\"}}"
         -> <<"e", "3", "4", "d", "4", "7", "4", "4">>
      [] str = "{\"embedder\": {\"type\": \"openai\", \"model_name\": \"large\"}, \"chunker\": {\"chunk_size\": 512, \"type\": \"fixed\"}, \"retriever\": {\"type\": \"chroma\", \"top_k\": 5}}"
         -> <<"e", "0", "e", "5", "e", "0", "6", "e">>
      [] str = "{\"embedder\": {\"type\": \"openai\", \"model_name\": \"large\"}, \"chunker\": {\"chunk_size\": 512, \"type\": \"fixed\"}, \"retriever\": {\"top_k\": 5, \"type\": \"chroma\"}}"
         -> <<"f", "9", "a", "e", "c", "0", "c", "3">>
      [] str = "{\"embedder\": {\"model_name\": \"large\", \"type\": \"openai\"}, \"chunker\": {\"type\": \"fixed\", \"chunk_size\": 512}, \"retriever\": {\"type\": \"chroma\", \"top_k\": 5}}"
         -> <<"c", "7", "c", "c", "e", "4", "8", "a">>
      [] str = "{\"embedder\": {\"model_name\": \"large\", \"type\": \"openai\"}, \"chunker\": {\"type\": \"fixed\", \"chunk_size\": 512}, \"retriever\": {\"top_k\": 5, \"type\": \"chroma\"}}"
         -> <<"b", "b", "a", "4", "c", "a", "2", "5">>
      [] str = "{\"embedder\": {\"model_name\": \"large\", \"type\": \"openai\"}, \"chunker\": {\"chunk_size\": 512, \"type\": \"fixed\"}, \"retriever\": {\"type\": \"chroma\", \"top_k\": 5}}"
         -> <<"b", "c", "0", "d", "4", "c", "1", "e">>
      [] str = "{\"embedder\": {\"model_name\": \"large\", \"type\": \"openai\"}, \"chunker\": {\"chunk_size\": 512, \"type\": \"fixed\"}, \"retriever\": {\"top_k\": 5, \"type\": \"chroma\"}}"
         -> <<"3", "5", "9", "8", "f", "c", "8", "b">>
      [] str = "{\"chunker\": {\"chunk_size\": 512, \"type\": \"fixed\"}, \"embedder\": {\"model_name\": \"large\", \"type\": \"openai\"}, \"retriever\": {\"top_k\": 10, \"type\": \"chroma\"}}"
         -> <<"e", "1", "f", "f", "7", "f", "4", "b">>
      [] str = "{\"embedder\": {\"type\": \"openai\", \"model_name\": \"large\"}, \"chunker\": {\"type\": \"fixed\", \"chunk_size\": 512}, \"retriever\": {\"type\": \"chroma\", \"top_k\": 10}}"
         -> <<"9", "1", "4", "2", "7", "6", "c", "2">>
      [] str = "{\"embedder\": {\"type\": \"openai\", \"model_name\": \"large\"}, \"chunker\": {\"type\": \"fixed\", \"chunk_size\": 512}, \"retriever\": {\"top_k\": 10, \"type\": \"chroma\"}}"
         -> <<"4", "3", "2", "4", "5", "2", "d", "a">>
      [] str = "{\"embedder\": {\"type\": \"openai\", \"model_name\": \"large\"}, \"chunker\": {\"chunk_size\": 512, \"type\": \"fixed\"}, \"retriever\": {\"type\": \"chroma\", \"top_k\": 10}}"
         -> <<"6", "1", "b", "6", "5", "0", "4", "0">>
      [] str = "{\"embedder\": {\"type\": \"openai\", \"model_name\": \"large\"}, \"chunker\": {\"chunk_size\": 512, \"type\": \"fixed\"}, \"retriever\": {\"top_k\": 10, \"type\": \"chroma\"}}"
         -> <<"0", "7", "f", "3", "d", "d", "6", "5">>
      [] str = "{\"embedder\": {\"model_name\": \"large\", \"type\": \"openai\"}, \"chunker\": {\"type\": \"fixed\", \"chunk_size\": 512}, \"retriever\": {\"type\": \"chroma\", \"top_k\": 10}}"
         -> <<"0", "b", "1", "6", "d", "e", "8", "6">>
      [] str = "{\"embedder\": {\"model_name\": \"large\", \"type\": \"openai\"}, \"chunker\": {\"type\": \"fixed\", \"chunk_size\": 512}, \"retriever\": {\"top_k\": 10, \"type\": \"chroma\"}}"
         -> <<"0", "2", "1", "c", "b", "c", "2", "f">>
      [] str = "{\"embedder\": {\"model_name\": \"large\", \"type\": \"openai\"}, \"chunker\": {\"chunk_size\": 512, \"type\": \"fixed\"}, \"retriever\": {\"type\": \"chroma\", \"top_k\": 10}}"
         -> <<"1", "2", "2", "4", "a", "6", "5", "b">>
      [] str = "{\"embedder\": {\"model_name\": \"large\", \"type\": \"openai\"}, \"chunker\": {\"chunk_size\": 512, \"type\": \"fixed\"}, \"retriever\": {\"top_k\": 10, \"type\": \"chroma\"}}"
         -> <<"4", "6", "9", "a", "1", "8", "b", "4">>

\* the value of a hexadecimal digit
HexDigit(c) ==
    CASE c = "0" -> 0 [] c = "1" -> 1 [] c = "2" -> 2 [] c = "3" -> 3
      [] c = "4" -> 4 [] c = "5" -> 5 [] c = "6" -> 6 [] c = "7" -> 7
      [] c = "8" -> 8 [] c = "9" -> 9 [] c = "a" -> 10 [] c = "b" -> 11
      [] c = "c" -> 12 [] c = "d" -> 13 [] c = "e" -> 14 [] c = "f" -> 15

\* int(hex, 16) % m, reduced digit by digit
RECURSIVE HexMod(_, _)
HexMod(hex, m) ==
    IF hex = <<>> THEN 0
    ELSE (HexMod(SubSeq(hex, 1, Len(hex) - 1), m) * 16 + HexDigit(hex[Len(hex)])) % m

\* the user profiles of the model
ProfileA == <<StrEntry("major", "cs"), ListEntry("interest_job", <<"dev", "pm">>)>>
\* ProfileA with its keys in the other order
ProfileA2 == <<ListEntry("interest_job", <<"dev", "pm">>), StrEntry("major", "cs")>>
\* ProfileA with the elements of its list in the other order
ProfileB == <<StrEntry("major", "cs"), ListEntry("interest_job", <<"pm", "dev">>)>>
\* two profiles whose MD5 digests start with the same eight digits
ProfileC == <<StrEntry("major", "m66465")>>
ProfileD == <<StrEntry("major", "m73197")>>
Profiles == {ProfileA, ProfileA2, ProfileB, ProfileC, ProfileD}

\* _generate_profile_hash(user_profile)
GenerateProfileHash(user_profile) == Md5Hex8(JsonDumpsDict(user_profile))

\* the modulus of generate_reproducible_seed
SeedModulus == 100000

\* generate_reproducible_seed(config_dict)
GenerateReproducibleSeed(config_dict) ==
    HexMod(Md5Hex8(JsonDumpsConfig(config_dict)), SeedModulus)

---------------------------------------------------------------------------
(* The random module's generator and StratifiedSampler *)

\* the generator: a linear congruential generator in place of the Mersenne
\* Twister
RngModulus == 65537
RngNext(s) == (75 * s + 74) % RngModulus

\* the states the generator may be in when the process starts (it is seeded
\* from the operating system's entropy)
InitialRngStates == {0, 1}

\* random.seed(seed): the state it sets
RandomSeed(seed) == seed % RngModulus

\* one number below n drawn in state s, and the state after the draw
Randbelow(s, n) == [val |-> RngNext(s) % n, rng |-> RngNext(s)]

\* random.sample's selection loop over a pool of n items: k times, draw
\* j below the number of items left, take pool[j] and move the last item
\* left to position j
RECURSIVE SamplePool(_, _, _, _)
SamplePool(pool, n, k, s) ==
    IF k = 0 THEN [out |-> <<>>, rng |-> s]
    ELSE LET r == Randbelow(s, n)
             j == r.val + 1
             rest == SamplePool([pool EXCEPT ![j] = pool[n]], n - 1, k - 1, r.rng)
         IN [out |-> <<pool[j]>> \o rest.out, rng |-> rest.rng]

\* random.sample(population, k) in state s
RandomSample(population, k, s) ==
    IF k < 0 \/ k > Len(population)
    THEN [raised |-> TRUE, out |-> <<>>, rng |-> s]
    ELSE LET r == SamplePool(population, Len(population), k, s)
         IN [raised |-> FALSE, out |-> r.out, rng |-> r.rng]

\* the query lists of the model: the i-th query of a list is question i
QueryLists ==
    UNION {{[i \in 1..n |-> [question |-> i, user_profile |-> ps[i]]] :
               ps \in [1..n -> Profiles]} : n \in 0..MaxQueries}

Strategies == {"profile_based", "random", "stratified"}

\* the seed argument of StratifiedSampler
SamplerSeeds == {None, Some(1), Some(2)}

\* the profile hash of a query
QueryHash(query) == GenerateProfileHash(query.user_profile)

\* list(profile_groups.keys()): the hashes in order of first appearance
RECURSIVE ProfileHashes(_)
ProfileHashes(queries) ==
    IF Len(queries) = 0 THEN <<>>
    ELSE LET front == ProfileHashes(SubSeq(queries, 1, Len(queries) - 1))
             h == QueryHash(queries[Len(queries)])
         IN IF \E i \in 1..Len(front) : front[i] = h THEN front ELSE Append(front, h)

\* profile_groups[profile_hash]: the queries of one hash, in list order
ProfileGroup(queries, h) == SelectSeq(queries, LAMBDA q : QueryHash(q) = h)

\* lines 124-127: one query drawn from the group of each selected hash
RECURSIVE PickOnePerProfile(_, _, _)
PickOnePerProfile(queries, hashes, s) ==
    IF Len(hashes) = 0 THEN [out |-> <<>>, rng |-> s]
    ELSE LET pick == RandomSample(ProfileGroup(queries, hashes[1]), 1, s)
             rest == PickOnePerProfile(queries, Tail(hashes), pick.rng)
         IN [out |-> <<pick.out[1]>> \o rest.out, rng |-> rest.rng]

\* lines 104-109
TargetProfiles(available_profiles, size) ==
    IF available_profiles < size THEN available_profiles ELSE size

\* a sampling that draws the queries themselves, whatever their profiles
ProfileBlindSampling(queries, size, s) == RandomSample(queries, size, s)

\* _profile_based_sampling(queries, sample_size) in state s
ProfileBasedSampling(queries, size, s) ==
    LET profile_hashes == ProfileHashes(queries)
        selected == RandomSample(profile_hashes,
                                 TargetProfiles(Len(profile_hashes), size), s)
    IN IF selected.raised THEN selected
       ELSE LET picked == PickOnePerProfile(queries, selected.out, selected.rng)
            IN [raised |-> FALSE, out |-> picked.out, rng |-> picked.rng]

\* _random_sampling(queries, sample_size) in state s
RandomSampling(queries, size, s) == RandomSample(queries, size, s)

\* a sample_queries without the early return of lines 64-66
SampleQueriesAlwaysDraws(queries, size, strat, s) ==
    IF strat = "profile_based" THEN ProfileBasedSampling(queries, size, s)
    ELSE IF strat = "random" THEN RandomSampling(queries, size, s)
    ELSE [raised |-> TRUE, out |-> <<>>, rng |-> s]

\* sample_queries(all_queries, sample_size, strategy) in state s: whether it
\* raised, the list it returned and the state it left
SampleQueries(queries, size, strat, s) ==
    IF Len(queries) <= size THEN [raised |-> FALSE, out |-> queries, rng |-> s]
    ELSE IF strat = "profile_based" THEN ProfileBasedSampling(queries, size, s)
    ELSE IF strat = "random" THEN RandomSampling(queries, size, s)
    ELSE [raised |-> TRUE, out |-> <<>>, rng |-> s]

\* the pipeline's config_dict: the __dict__ of the embedder, chunker and
\* retriever configurations, each with its keys in either order
BothOrders(d) == {d, <<d[2], d[1]>>}
EmbedderDicts ==
    UNION {BothOrders(<<StrEntry("type", "openai"), StrEntry("model_name", m)>>) :
              m \in {"small", "large"}}
ChunkerDicts ==
    UNION {BothOrders(<<StrEntry("type", "fixed"), IntEntry("chunk_size", c)>>) :
              c \in {"256", "512"}}
RetrieverDicts ==
    UNION {BothOrders(<<StrEntry("type", "chroma"), IntEntry("top_k", k)>>) :
              k \in {"5", "10"}}
ConfigDicts ==
    {<<DictEntry("embedder", e), DictEntry("chunker", c), DictEntry("retriever", r)>> :
        e \in EmbedderDicts, c \in ChunkerDicts, r \in RetrieverDicts}

---------------------------------------------------------------------------
(* The evaluators: SearchMetricsEvaluator and RetrieverEvaluator *)

\* a float score is a fixed-point number: One is 1.0
One == 10000

\* a / b of two ints
Ratio(a, b) == (a * One) \div b

\* 1 / math.log2(n)
InvLog2(n) ==
    CASE n = 2 -> 10000 [] n = 3 -> 6309 [] n = 4 -> 5000 [] n = 5 -> 4307
      [] n = 6 -> 3869 [] n = 7 -> 3562 [] n = 8 -> 3333 [] n = 9 -> 3155
      [] n = 10 -> 3010 [] n = 11 -> 2891 [] n = 12 -> 2789

Min(a, b) == IF a < b THEN a ELSE b

\* set(list)
SetOf(list) == {list[i] : i \in 1..Len(list)}

\* sum(list)
RECURSIVE Sum(_)
Sum(list) == IF Len(list) = 0 THEN 0 ELSE list[1] + Sum(Tail(list))

\* a retrieved document whose metadata is a dict: its rec_idx, id and
\* filename, "" for a field that is absent or empty
Doc(rec_idx, id, filename) ==
    [metadata |-> "dict", rec_idx |-> rec_idx, id |-> id, filename |-> filename]

\* _extract_doc_id(doc) raises: doc.get('metadata', {}) is None when the key
\* is there with a null value, and None has no get
ExtractDocIdRaises(doc) == doc.metadata = "null"

\* _extract_doc_id(doc) when it returns; a document without the metadata key
\* has the empty dict for metadata
ExtractDocId(doc) ==
    IF doc.rec_idx # "" THEN doc.rec_idx
    ELSE IF doc.id # "" THEN doc.id
    ELSE doc.filename

\* the doc ids of the query's first k retrieved documents that have one
RetrievedK(qr, k) ==
    LET n == IF k < 0 THEN 0 ELSE Min(k, Len(qr.retrieved_docs))
    IN SelectSeq([i \in 1..n |-> ExtractDocId(qr.retrieved_docs[i])],
                 LAMBDA doc_id : doc_id # "")

\* the document at a rank has an id of the ground truth
Relevant(qr, rank) ==
    /\ ExtractDocId(qr.retrieved_docs[rank]) # ""
    /\ ExtractDocId(qr.retrieved_docs[rank]) \in SetOf(qr.ground_truth_docs)

\* the queries an average runs over: those with a ground truth
ValidQueries(query_results) ==
    SelectSeq(query_results, LAMBDA qr : Len(qr.ground_truth_docs) > 0)

\* total / valid_queries if valid_queries > 0 else 0.0
Mean(scores) == IF Len(scores) > 0 THEN Sum(scores) \div Len(scores) ELSE 0

\* lines 83-100: the recall of one query
QueryRecall(qr, k) ==
    Ratio(Cardinality(SetOf(qr.ground_truth_docs) \cap SetOf(RetrievedK(qr, k))),
          Cardinality(SetOf(qr.ground_truth_docs)))

\* calculate_recall_at_k(query_results, k)
CalculateRecallAtK(query_results, k) ==
    LET valid == ValidQueries(query_results)
    IN Mean([i \in 1..Len(valid) |-> QueryRecall(valid[i], k)])

\* lines 121-135: the precision of one query
QueryPrecision(qr, k) ==
    IF Len(RetrievedK(qr, k)) > 0
    THEN Ratio(Cardinality(SetOf(qr.ground_truth_docs) \cap SetOf(RetrievedK(qr, k))),
               Min(k, Len(RetrievedK(qr, k))))
    ELSE 0

\* calculate_precision_at_k(query_results, k)
CalculatePrecisionAtK(query_results, k) ==
    LET valid == ValidQueries(query_results)
    IN Mean([i \in 1..Len(valid) |-> QueryPrecision(valid[i], k)])

\* lines 157-168: the reciprocal rank of one query
QueryReciprocalRank(qr) ==
    LET ranks == {r \in 1..Len(qr.retrieved_docs) : Relevant(qr, r)}
    IN IF ranks = {} THEN 0
       ELSE Ratio(1, CHOOSE r \in ranks : \A r2 \in ranks : r <= r2)

\* calculate_mrr(query_results)
CalculateMrr(query_results) ==
    LET valid == ValidQueries(query_results)
    IN Mean([i \in 1..Len(valid) |-> QueryReciprocalRank(valid[i])])

\* _calculate_average_precision(query_result)
CalculateAveragePrecision(qr) ==
    LET relevant_retrieved(rank) == Cardinality({r \in 1..rank : Relevant(qr, r)})
        total_precision ==
            Sum([rank \in 1..Len(qr.retrieved_docs) |->
                    IF Relevant(qr, rank) THEN Ratio(relevant_retrieved(rank), rank)
                    ELSE 0])
        total_relevant == Cardinality(SetOf(qr.ground_truth_docs))
    IN IF total_relevant > 0 THEN total_precision \div total_relevant ELSE 0

\* calculate_map(query_results)
CalculateMap(query_results) ==
    LET valid == ValidQueries(query_results)
    IN Mean([i \in 1..Len(valid) |-> CalculateAveragePrecision(valid[i])])

\* the discount of a rank in lines 256-259 and 270-273
Discount(rank) == IF rank = 1 THEN One ELSE InvLog2(rank)

\* _calculate_dcg_at_k(query_result, k)
CalculateDcgAtK(qr, k) ==
    Sum([rank \in 1..(IF k < 0 THEN 0 ELSE Min(k, Len(qr.retrieved_docs))) |->
            IF Relevant(qr, rank) THEN Discount(rank) ELSE 0])

\* _calculate_ideal_dcg_at_k(query_result, k)
CalculateIdealDcgAtK(qr, k) ==
    Sum([rank \in 1..Min(k, Len(qr.ground_truth_docs)) |-> Discount(rank)])

\* lines 210-217: the nDCG of one query
QueryNdcg(qr, k) ==
    IF CalculateIdealDcgAtK(qr, k) > 0
    THEN (CalculateDcgAtK(qr, k) * One) \div CalculateIdealDcgAtK(qr, k)
    ELSE 0

\* calculate_ndcg(query_results, k)
CalculateNdcg(query_results, k) ==
    LET valid == ValidQueries(query_results)
    IN Mean([i \in 1..Len(valid) |-> QueryNdcg(valid[i], k)])

\* an EvaluationResult: its metric, score and details
EvaluationResult(name, score, k, n) ==
    [metric_name |-> name, score |-> score, k |-> k, total_queries |-> n]

\* evaluate(query_results) with k_values = [k]
Evaluate(query_results, k) ==
    LET n == Len(query_results)
    IN <<EvaluationResult("recall@k", CalculateRecallAtK(query_results, k), k, n),
         EvaluationResult("precision@k", CalculatePrecisionAtK(query_results, k), k, n),
         EvaluationResult("mrr", CalculateMrr(query_results), 0, n),
         EvaluationResult("map", CalculateMap(query_results), 0, n),
         EvaluationResult("ndcg@k", CalculateNdcg(query_results, k), k, n)>>

\* the id at rank k alone, not the ids up to rank k
RankKOnly(retrieved_ids, k) ==
    IF k \in 1..Len(retrieved_ids) THEN <<retrieved_ids[k]>> ELSE <<>>

\* the metrics of the SearchMetricsEvaluator, in the order evaluate calls them
SearchMetrics == <<"recall@k", "precision@k", "mrr", "map", "ndcg@k">>

\* the score a metric function returns
MetricScore(query_results, m, k) ==
    CASE m = "recall@k" -> CalculateRecallAtK(query_results, k)
      [] m = "precision@k" -> CalculatePrecisionAtK(query_results, k)
      [] m = "mrr" -> CalculateMrr(query_results)
      [] m = "map" -> CalculateMap(query_results)
      [] m = "ndcg@k" -> CalculateNdcg(query_results, k)

\* the number of leading retrieved documents whose id a metric's loop extracts:
\* the first k, all of them, or (mrr, which breaks at the first hit) those up
\* to the first one that raises or is relevant
Extracted(qr, m, k) ==
    LET n == Len(qr.retrieved_docs)
        stops == {r \in 1..n : ExtractDocIdRaises(qr.retrieved_docs[r]) \/ Relevant(qr, r)}
    IN CASE m \in {"recall@k", "precision@k", "ndcg@k"} -> IF k < 0 THEN 0 ELSE Min(k, n)
         [] m = "map" -> n
         [] m = "mrr" -> IF stops = {} THEN n
                         ELSE CHOOSE r \in stops : \A r2 \in stops : r <= r2

\* a metric function raises: _extract_doc_id does on a document of a query
\* that has a ground truth
MetricRaises(query_results, m, k) ==
    \E q \in 1..Len(query_results) :
        /\ Len(query_results[q].ground_truth_docs) > 0
        /\ \E i \in 1..Extracted(query_results[q], m, k) :
              ExtractDocIdRaises(query_results[q].retrieved_docs[i])

\* what a call of a metric function gives: a score or an exception
MetricOutcome(query_results, m, k) ==
    IF MetricRaises(query_results, m, k)
    THEN [metric |-> m, raised |-> TRUE, score |-> 0]
    ELSE [metric |-> m, raised |-> FALSE, score |-> MetricScore(query_results, m, k)]

\* evaluate(query_results) raises: one of its metric calls does
EvaluateRaises(query_results, k) ==
    \E i \in 1..Len(SearchMetrics) : MetricRaises(query_results, SearchMetrics[i], k)

\* retrieved_ids[:k] for k >= 0
TopK(retrieved_ids, k) == SubSeq(retrieved_ids, 1, Min(k, Len(retrieved_ids)))

\* RetrieverEvaluator.calculate_ndcg_at_k
RetrieverNdcgAtK(retrieved_ids, ground_truth_ids, k) ==
    LET top == TopK(retrieved_ids, k)
        dcg == Sum([i \in 1..Len(top) |->
                       IF top[i] \in SetOf(ground_truth_ids) THEN InvLog2(i + 1) ELSE 0])
        idcg == Sum([i \in 1..Min(Len(ground_truth_ids), k) |-> InvLog2(i + 1)])
    IN IF idcg = 0 THEN 0 ELSE (dcg * One) \div idcg

\* RetrieverEvaluator.calculate_recall_at_k
RetrieverRecallAtK(retrieved_ids, ground_truth_ids, k) ==
    IF Len(ground_truth_ids) = 0 THEN 0
    ELSE Ratio(Cardinality(SetOf(TopK(retrieved_ids, k)) \cap SetOf(ground_truth_ids)),
               Len(ground_truth_ids))

\* the reciprocal of the last relevant rank in the window, not of the first
RetrieverMrrLastHit(retrieved_ids, ground_truth_ids, k) ==
    LET top == SubSeq(retrieved_ids, 1, Min(k, Len(retrieved_ids)))
        ranks == {r \in 1..Len(top) : top[r] \in SetOf(ground_truth_ids)}
    IN IF ranks = {} THEN 0
       ELSE Ratio(1, CHOOSE r \in ranks : \A r2 \in ranks : r >= r2)

\* RetrieverEvaluator.calculate_mrr_at_k
RetrieverMrrAtK(retrieved_ids, ground_truth_ids, k) ==
    LET top == TopK(retrieved_ids, k)
        ranks == {r \in 1..Len(top) : top[r] \in SetOf(ground_truth_ids)}
    IN IF ranks = {} THEN 0
       ELSE Ratio(1, CHOOSE r \in ranks : \A r2 \in ranks : r <= r2)

\* RetrieverEvaluator.calculate_precision_at_k
RetrieverPrecisionAtK(retrieved_ids, ground_truth_ids, k) ==
    IF k = 0 THEN 0
    ELSE Ratio(Cardinality(SetOf(TopK(retrieved_ids, k)) \cap SetOf(ground_truth_ids)), k)

\* the names of the averaged metrics
MetricNames == {"ndcg@10", "recall@20", "mrr@10", "precision@3", "precision@5"}

\* evaluate_query(retrieved_rec_idxs, ground_truth_rec_idxs): its five scores
EvaluateQuery(retrieved, ground_truth) ==
    [m \in MetricNames |->
        CASE m = "ndcg@10" -> RetrieverNdcgAtK(retrieved, ground_truth, 10)
          [] m = "recall@20" -> RetrieverRecallAtK(retrieved, ground_truth, 20)
          [] m = "mrr@10" -> RetrieverMrrAtK(retrieved, ground_truth, 10)
          [] m = "precision@3" -> RetrieverPrecisionAtK(retrieved, ground_truth, 3)
          [] m = "precision@5" -> RetrieverPrecisionAtK(retrieved, ground_truth, 5)]

\* the rec_idx list of a query's retrieved documents
RetrievedRecIdxs(qr) ==
    [i \in 1..Len(qr.retrieved_docs) |-> qr.retrieved_docs[i].rec_idx]

\* evaluate_all_queries(results), results[i]["metrics"] being the metrics of
\* evaluate_query on the i-th query
EvaluateAllQueries(query_results) ==
    LET per_query == [i \in 1..Len(query_results) |->
                         EvaluateQuery(RetrievedRecIdxs(query_results[i]),
                                       query_results[i].ground_truth_docs)]
    IN [total_queries |-> Len(query_results),
        average_metrics |->
            [m \in MetricNames |->
                Sum([i \in 1..Len(per_query) |-> per_query[i][m]])
                    \div Len(query_results)],
        per_query_metrics |-> per_query]

\* the retrieved documents and document ids of the model: DocA and DocC have
\* a rec_idx, DocB an id only, DocN no id at all
DocA == Doc("A", "", "")
DocB == Doc("", "B", "")
DocC == Doc("C", "A", "")
DocN == Doc("", "", "")
Docs == {DocA, DocB, DocC, DocN}

\* a document without the metadata key, and one whose metadata is null
DocNoMeta == [metadata |-> "absent", rec_idx |-> "", id |-> "", filename |-> ""]
DocNullMeta == [metadata |-> "null", rec_idx |-> "", id |-> "", filename |-> ""]

\* a document with the three fields, and one with a filename only
DocAll == Doc("A", "B", "A")
DocF == Doc("", "", "B")
DocIds == {"A", "B"}

\* the QueryResults of the model: (retrieved_docs, ground_truth_docs)
QueryResults ==
    [retrieved_docs : SeqsUpTo(Docs, MaxRetrieved),
     ground_truth_docs : SeqsUpTo(DocIds, MaxGT)]

\* a query without ground truth, and a query with a hit at rank 1
EmptyTruthQuery == [retrieved_docs |-> <<DocA>>, ground_truth_docs |-> <<>>]
HitQuery == [retrieved_docs |-> <<DocA, DocC>>, ground_truth_docs |-> <<"A">>]

---------------------------------------------------------------------------
(* Operations as actions *)

NoCur == [key |-> "", docs |-> <<>>, embs |-> <<>>]

NoOp == [op |-> "none", key |-> "", result |-> "", at |-> "", pre |-> FALSE,
         docs |-> <<>>, embs |-> <<>>, listing |-> <<>>]

\* the positions of save inside its try block
InTry == {"mkdir", "docs_open", "docs_done", "emb_open", "emb_done", "meta_open"}

\* a save that returns at once when the key already holds an entry
SaveBeginSkipsCached(K, D, E) ==
    /\ pc = "idle"
    /\ nSaves < MaxSaves
    /\ \E k \in K, d \in D, e \in E :
          IF Exists(store, k)
          THEN /\ last' = [NoOp EXCEPT !.op = "save", !.key = k, !.result = "ok",
                                        !.docs = d, !.embs = e]
               /\ history' = [history EXCEPT ![k] = Append(@, [docs |-> d, embs |-> e])]
               /\ UNCHANGED <<store, cur, pc>>
          ELSE /\ store' = Mkdir(store, k)
               /\ cur' = [key |-> k, docs |-> d, embs |-> e]
               /\ pc' = "mkdir"
               /\ last' = NoOp
               /\ UNCHANGED history
    /\ nSaves' = nSaves + 1
    /\ UNCHANGED <<now, keyVars, samplerVars, seedVars, evalVars, scoreVars, loadVars, runVars>>

\* save, line 83: the directory is made; the arguments are the caller's
SaveBegin(K, D, E) ==
    /\ pc = "idle"
    /\ nSaves < MaxSaves
    /\ \E k \in K, d \in D, e \in E :
          /\ store' = Mkdir(store, k)
          /\ cur' = [key |-> k, docs |-> d, embs |-> e]
    /\ pc' = "mkdir"
    /\ last' = NoOp
    /\ nSaves' = nSaves + 1
    /\ UNCHANGED <<now, history, keyVars, samplerVars, seedVars, evalVars, scoreVars, loadVars, runVars>>

\* save, line 87: open(processed_documents.pkl, 'wb')
SaveOpenDocs ==
    /\ pc = "mkdir"
    /\ store' = OpenDocsFile(store, cur.key)
    /\ pc' = "docs_open"
    /\ UNCHANGED <<cur, now, last, history, nSaves, keyVars, samplerVars, seedVars, evalVars, scoreVars, loadVars, runVars>>

\* save, line 88: pickle.dump, and the file is closed
SaveDumpDocs ==
    /\ pc = "docs_open"
    /\ store' = WriteDocs(store, cur.key, cur.docs)
    /\ pc' = "docs_done"
    /\ UNCHANGED <<cur, now, last, history, nSaves, keyVars, samplerVars, seedVars, evalVars, scoreVars, loadVars, runVars>>

\* save, lines 91-92: np.array succeeded and np.save has opened embeddings.npy
SaveOpenEmb ==
    /\ pc = "docs_done"
    /\ ~IsRagged(cur.embs)
    /\ store' = OpenEmbFile(store, cur.key)
    /\ pc' = "emb_open"
    /\ UNCHANGED <<cur, now, last, history, nSaves, keyVars, samplerVars, seedVars, evalVars, scoreVars, loadVars, runVars>>

\* save, line 92: np.save has written the array
SaveWriteEmb ==
    /\ pc = "emb_open"
    /\ store' = WriteEmb(store, cur.key, cur.embs)
    /\ pc' = "emb_done"
    /\ UNCHANGED <<cur, now, last, history, nSaves, keyVars, samplerVars, seedVars, evalVars, scoreVars, loadVars, runVars>>

\* save, line 103: open(metadata.json, 'w')
SaveOpenMeta ==
    /\ pc = "emb_done"
    /\ store' = OpenMetaFile(store, cur.key)
    /\ pc' = "meta_open"
    /\ UNCHANGED <<cur, now, last, history, nSaves, keyVars, samplerVars, seedVars, evalVars, scoreVars, loadVars, runVars>>

\* save, lines 104-109: json.dump of the metadata, and save returns
SaveDumpMeta ==
    /\ pc = "meta_open"
    /\ store' = WriteMeta(store, cur.key, cur.docs, cur.embs, now)
    /\ pc' = "idle"
    /\ last' = [NoOp EXCEPT !.op = "save", !.key = cur.key, !.result = "ok",
                            !.docs = cur.docs, !.embs = cur.embs]
    /\ history' = [history EXCEPT ![cur.key] =
                     Append(@, [docs |-> cur.docs, embs |-> cur.embs])]
    /\ cur' = NoCur
    /\ UNCHANGED <<now, nSaves, keyVars, samplerVars, seedVars, evalVars, scoreVars, loadVars, runVars>>

\* save, lines 111-115: a statement of the try block raised (an I/O error
\* of open or of a write, np.array on ragged rows); the directory is cleaned
\* up and the exception is raised again
SaveFail ==
    /\ pc \in InTry
    /\ store' = CleanupPartialCache(store, cur.key)
    /\ pc' = "idle"
    /\ last' = [NoOp EXCEPT !.op = "save", !.key = cur.key, !.result = "raised",
                            !.at = pc]
    /\ cur' = NoCur
    /\ UNCHANGED <<now, history, nSaves, keyVars, samplerVars, seedVars, evalVars, scoreVars, loadVars, runVars>>

\* the process dies inside save: no handler runs, the files stay as they are
Crash ==
    /\ pc \in InTry
    /\ pc' = "idle"
    /\ last' = [NoOp EXCEPT !.op = "crash", !.key = cur.key, !.result = "crashed",
                            !.at = pc]
    /\ cur' = NoCur
    /\ UNCHANGED <<store, now, history, nSaves, keyVars, samplerVars, seedVars, evalVars, scoreVars, loadVars, runVars>>

\* delete_cache(cache_key)
DeleteOp(K) ==
    /\ pc = "idle"
    /\ \E k \in K :
          /\ store' = DeleteCache(store, k)
          /\ last' = [NoOp EXCEPT !.op = "delete", !.key = k,
                        !.result = IF DeleteCacheResult(store, k) THEN "true" ELSE "false",
                        !.pre = Exists(store, k)]
    /\ UNCHANGED <<pc, cur, now, history, nSaves, keyVars, samplerVars, seedVars, evalVars, scoreVars, loadVars, runVars>>

\* list_caches()
ListOp ==
    /\ pc = "idle"
    /\ \E l \in ListCaches(store) :
          last' = [NoOp EXCEPT !.op = "list", !.listing = l]
    /\ UNCHANGED <<store, pc, cur, now, history, nSaves, keyVars, samplerVars, seedVars, evalVars, scoreVars, loadVars, runVars>>

\* time passes between two operations
Tick ==
    /\ pc = "idle"
    /\ now < MaxClock
    /\ now' = now + 1
    /\ UNCHANGED <<store, pc, cur, last, history, nSaves, keyVars, samplerVars, seedVars, evalVars, scoreVars, loadVars, runVars>>

---------------------------------------------------------------------------
(* Specifications of the cache store *)

NoConfig == [model_name |-> <<>>, type |-> <<>>,
             chunk_size |-> [some |-> FALSE, val |-> 0],
             chunk_overlap |-> [some |-> FALSE, val |-> 0]]

InitKeyIdle ==
    /\ cfgA = NoConfig
    /\ cfgB = NoConfig
    /\ keyA = <<>>
    /\ keyB = <<>>

InitCache ==
    /\ store = [k \in Keys |-> NoDir]
    /\ pc = "idle"
    /\ cur = NoCur
    /\ now = 0
    /\ last = NoOp
    /\ history = [k \in Keys |-> <<>>]
    /\ nSaves = 0

NoSampler == [exists |-> FALSE, seed |-> None, used |-> FALSE]

InitSamplerIdle ==
    /\ rng = 0
    /\ sampler = NoSampler
    /\ all_queries = <<>>
    /\ sample_size = 0
    /\ strategy = "profile_based"
    /\ calls = <<>>
    /\ nDraws = 0

InitSeedIdle ==
    /\ seedCfgA = <<>>
    /\ seedCfgB = <<>>
    /\ seedA = None
    /\ seedB = None

InitEvalIdle ==
    /\ batch = <<>>
    /\ kval = 0
    /\ reports = <<>>
    /\ summaries = <<>>

\* no query is being scored
InitScoreIdle ==
    /\ query_result = [retrieved_docs |-> <<>>, ground_truth_docs |-> <<>>]
    /\ scored = <<>>
    /\ doc_ids = <<>>

\* no test-query file is being loaded
NotLoaded == [state |-> "none", queries |-> <<>>]
NotCalled == [called |-> FALSE, queries |-> <<>>]
InitLoadIdle ==
    /\ file_lines = <<>>
    /\ has_generator = FALSE
    /\ test_queries = NotLoaded
    /\ to_evaluator = NotCalled
    /\ to_sampler = NotCalled
    /\ runs = <<>>

Init ==
    /\ InitCache /\ InitKeyIdle /\ InitSamplerIdle /\ InitSeedIdle /\ InitEvalIdle
    /\ InitScoreIdle /\ InitLoadIdle

\* the store with failing and crashing saves, over a few lists
Next ==
    \/ SaveBegin(Keys, SmallDocs, SmallEmbs)
    \/ SaveOpenDocs
    \/ SaveDumpDocs
    \/ SaveOpenEmb
    \/ SaveWriteEmb
    \/ SaveOpenMeta
    \/ SaveDumpMeta
    \/ SaveFail
    \/ Crash
    \/ DeleteOp(Keys)
    \/ ListOp
    \/ Tick

Spec == Init /\ [][Next]_vars

\* the keys of RTKeys that have no directory yet
FreshKeys == {k \in RTKeys : ~store[k].dir}

\* saves into an empty cache directory, over all the lists up to MaxLen
NextRT ==
    \/ SaveBegin(FreshKeys, Documents(MaxLen), Embeddings(MaxLen))
    \/ SaveOpenDocs
    \/ SaveDumpDocs
    \/ SaveOpenEmb
    \/ SaveWriteEmb
    \/ SaveOpenMeta
    \/ SaveDumpMeta
    \/ SaveFail
    \/ Tick

SpecRT == Init /\ [][NextRT]_vars

---------------------------------------------------------------------------
(* Specification of the key derivation: the key of one configuration is
   generated, then the key of another *)

GenerateKeyA ==
    /\ keyA = <<>>
    /\ \E cfg \in Configs :
          /\ cfgA' = cfg
          /\ keyA' = GenerateCacheKey(cfg)
    /\ UNCHANGED <<cfgB, keyB, cacheVars, samplerVars, seedVars, evalVars, scoreVars, loadVars, runVars>>

GenerateKeyB ==
    /\ keyA # <<>>
    /\ keyB = <<>>
    /\ \E cfg \in Configs :
          /\ cfgB' = cfg
          /\ keyB' = GenerateCacheKey(cfg)
    /\ UNCHANGED <<cfgA, keyA, cacheVars, samplerVars, seedVars, evalVars, scoreVars, loadVars, runVars>>

NextKey == GenerateKeyA \/ GenerateKeyB

SpecKey == Init /\ [][NextKey]_vars

---------------------------------------------------------------------------
(* Specifications of the sampler: on one query list, sample size and
   strategy, samplers are constructed and called; in SpecRepro other code
   of the process draws from the generator in between.  N is the number
   of sample_queries calls of a behaviour *)

\* StratifiedSampler(seed): __init__ seeds the process-wide generator
NewSampler(N) ==
    /\ Len(calls) < N
    /\ ~sampler.exists \/ sampler.used
    /\ \E seed \in SamplerSeeds :
          /\ sampler' = [exists |-> TRUE, seed |-> seed, used |-> FALSE]
          /\ rng' = IF seed.some THEN RandomSeed(seed.val) ELSE rng
    /\ UNCHANGED <<all_queries, sample_size, strategy, calls, nDraws,
                   cacheVars, keyVars, seedVars, evalVars, scoreVars, loadVars, runVars>>

\* a draw from the random module by other code of the process
OtherDraw(N) ==
    /\ Len(calls) < N
    /\ nDraws < MaxDraws
    /\ rng' = RngNext(rng)
    /\ nDraws' = nDraws + 1
    /\ UNCHANGED <<sampler, all_queries, sample_size, strategy, calls,
                   cacheVars, keyVars, seedVars, evalVars, scoreVars, loadVars, runVars>>

\* sampler.sample_queries(all_queries, sample_size, strategy)
SampleQueriesOp(N) ==
    /\ sampler.exists
    /\ Len(calls) < N
    /\ LET r == SampleQueries(all_queries, sample_size, strategy, rng)
       IN /\ rng' = r.rng
          /\ calls' = Append(calls, [seed |-> sampler.seed,
                                     raised |-> r.raised, out |-> r.out])
    /\ sampler' = [sampler EXCEPT !.used = TRUE]
    /\ UNCHANGED <<all_queries, sample_size, strategy, nDraws,
                   cacheVars, keyVars, seedVars, evalVars, scoreVars, loadVars, runVars>>

\* the process starts and is handed the inputs of sample_queries
InitSamplerOn(lists, sizes) ==
    /\ InitCache /\ InitKeyIdle /\ InitSeedIdle /\ InitEvalIdle /\ InitScoreIdle
    /\ InitLoadIdle
    /\ rng \in InitialRngStates
    /\ sampler = NoSampler
    /\ all_queries \in lists
    /\ sample_size \in sizes
    /\ strategy \in Strategies
    /\ calls = <<>>
    /\ nDraws = 0

\* one call, on every query list up to MaxQueries
InitSampler == InitSamplerOn(QueryLists, 0..(MaxQueries + 1))

NextSampler == NewSampler(1) \/ SampleQueriesOp(1)

SpecSampler == InitSampler /\ [][NextSampler]_vars

\* up to MaxCalls calls, on the lists of two or three queries of three
\* profiles of different hashes
ReproLists ==
    {qs \in QueryLists :
        /\ Len(qs) \in {2, 3}
        /\ \A i \in 1..Len(qs) :
              qs[i].user_profile \in {ProfileA, ProfileB, ProfileC}}

InitRepro == InitSamplerOn(ReproLists, {1, 2})

NextRepro ==
    NewSampler(MaxCalls) \/ OtherDraw(MaxCalls) \/ SampleQueriesOp(MaxCalls)

SpecRepro == InitRepro /\ [][NextRepro]_vars

---------------------------------------------------------------------------
(* Specification of the seed derivation: the pipeline, with no sample seed
   configured, derives the seed of one configuration, then of another *)

\* pipeline lines 507-521 with generation_config.sample_seed None
DeriveSeedA ==
    /\ ~seedA.some
    /\ \E cfg \in ConfigDicts :
          /\ seedCfgA' = cfg
          /\ seedA' = Some(GenerateReproducibleSeed(cfg))
    /\ UNCHANGED <<seedCfgB, seedB, cacheVars, keyVars, samplerVars, evalVars, scoreVars, loadVars, runVars>>

DeriveSeedB ==
    /\ seedA.some
    /\ ~seedB.some
    /\ \E cfg \in ConfigDicts :
          /\ seedCfgB' = cfg
          /\ seedB' = Some(GenerateReproducibleSeed(cfg))
    /\ UNCHANGED <<seedCfgA, seedA, cacheVars, keyVars, samplerVars, evalVars, scoreVars, loadVars, runVars>>

NextSeed == DeriveSeedA \/ DeriveSeedB

SpecSeed == Init /\ [][NextSeed]_vars

---------------------------------------------------------------------------
(* Specification of the evaluators: a batch of one or two query results is
   evaluated by the SearchMetricsEvaluator, then by the RetrieverEvaluator,
   one more query result is added to it, and the batch is evaluated again *)

\* the last evaluation of a history was made on the batch as it is now
UpToDate(evaluations, n) == Len(evaluations) > 0 /\ n = Len(batch)

\* SearchMetricsEvaluator(k_values=[kval]).evaluate(batch)
EvaluateOp ==
    /\ Len(batch) > 0
    /\ ~UpToDate(reports, IF Len(reports) = 0 THEN 0
                          ELSE reports[Len(reports)][1].total_queries)
    /\ reports' = Append(reports, Evaluate(batch, kval))
    /\ UNCHANGED <<batch, kval, summaries, cacheVars, keyVars, samplerVars, seedVars, scoreVars, loadVars, runVars>>

\* RetrieverEvaluator: evaluate_query on each query, then evaluate_all_queries
EvaluateAllOp ==
    /\ Len(batch) > 0
    /\ Len(summaries) < Len(reports)
    /\ ~UpToDate(summaries, IF Len(summaries) = 0 THEN 0
                            ELSE summaries[Len(summaries)].total_queries)
    /\ summaries' = Append(summaries, EvaluateAllQueries(batch))
    /\ UNCHANGED <<batch, kval, reports, cacheVars, keyVars, samplerVars, seedVars, scoreVars, loadVars, runVars>>

\* one more query result joins the evaluated batch
AddQueryOp ==
    /\ Len(reports) = 1
    /\ Len(summaries) = 1
    /\ reports[1][1].total_queries = Len(batch)
    /\ \E qr \in {EmptyTruthQuery, HitQuery} : batch' = Append(batch, qr)
    /\ UNCHANGED <<kval, reports, summaries, cacheVars, keyVars, samplerVars, seedVars, scoreVars, loadVars, runVars>>

InitEval ==
    /\ InitCache /\ InitKeyIdle /\ InitSamplerIdle /\ InitSeedIdle /\ InitScoreIdle
    /\ InitLoadIdle
    /\ batch \in {prefix \o <<qr>> : prefix \in {<<>>, <<HitQuery>>}, qr \in QueryResults}
    /\ kval \in 0..MaxK
    /\ reports = <<>>
    /\ summaries = <<>>

NextEval == EvaluateOp \/ EvaluateAllOp \/ AddQueryOp

SpecEval == InitEval /\ [][NextEval]_vars

---------------------------------------------------------------------------
(* Specification of the scores of one query: the metrics of both evaluators
   are computed on one query result at one k after the other *)

\* the scores of a query at k: the SearchMetricsEvaluator's on the batch of
\* this one query (mrr has no k), the RetrieverEvaluator's on its rec_idx list
QueryScores(qr, k) ==
    [recall |-> CalculateRecallAtK(<<qr>>, k),
     precision |-> CalculatePrecisionAtK(<<qr>>, k),
     mrr |-> CalculateMrr(<<qr>>),
     ndcg |-> CalculateNdcg(<<qr>>, k),
     r_recall |-> RetrieverRecallAtK(RetrievedRecIdxs(qr), qr.ground_truth_docs, k),
     r_precision |-> RetrieverPrecisionAtK(RetrievedRecIdxs(qr), qr.ground_truth_docs, k),
     r_mrr |-> RetrieverMrrAtK(RetrievedRecIdxs(qr), qr.ground_truth_docs, k),
     r_ndcg |-> RetrieverNdcgAtK(RetrievedRecIdxs(qr), qr.ground_truth_docs, k)]

\* the metrics are called with one more k
ScoreOp ==
    /\ \E k \in (0..MaxK) \ DOMAIN scored :
          scored' = [j \in DOMAIN scored \cup {k} |->
                        IF j = k THEN QueryScores(query_result, k) ELSE scored[j]]
    /\ UNCHANGED <<query_result, doc_ids, cacheVars, keyVars, samplerVars, seedVars, evalVars, loadVars, runVars>>

InitScore ==
    /\ InitCache /\ InitKeyIdle /\ InitSamplerIdle /\ InitSeedIdle /\ InitEvalIdle
    /\ InitLoadIdle
    /\ query_result \in QueryResults
    /\ scored = <<>>
    /\ doc_ids = <<>>

NextScore == ScoreOp

SpecScore == InitScore /\ [][NextScore]_vars

---------------------------------------------------------------------------
(* Specification of the document-id extraction: on one query result whose
   retrieved documents may have no metadata or a null one, _extract_doc_id is
   called on each document and each metric function is called once *)

\* the retrieved documents of these queries
HardDocs == {DocAll, DocB, DocF, DocN, DocNoMeta, DocNullMeta}

HardQueries ==
    [retrieved_docs : SeqsUpTo(HardDocs, MaxHard),
     ground_truth_docs : SeqsUpTo(DocIds, MaxGT)]

\* what a call of _extract_doc_id gives: an id or an exception
ExtractOutcome(doc) ==
    IF ExtractDocIdRaises(doc) THEN [raised |-> TRUE, doc_id |-> ""]
    ELSE [raised |-> FALSE, doc_id |-> ExtractDocId(doc)]

\* _extract_doc_id is called on the next retrieved document
ExtractOp ==
    /\ Len(doc_ids) < Len(query_result.retrieved_docs)
    /\ doc_ids' = Append(doc_ids,
                         ExtractOutcome(query_result.retrieved_docs[Len(doc_ids) + 1]))
    /\ UNCHANGED <<query_result, scored, cacheVars, keyVars, samplerVars, seedVars, evalVars, loadVars, runVars>>

\* the next metric function is called on the batch of this one query
MetricOp ==
    /\ Len(scored) < Len(SearchMetrics)
    /\ scored' = Append(scored, MetricOutcome(<<query_result>>,
                                              SearchMetrics[Len(scored) + 1], kval))
    /\ UNCHANGED <<query_result, doc_ids, cacheVars, keyVars, samplerVars, seedVars, evalVars, loadVars, runVars>>

InitExtract ==
    /\ InitCache /\ InitKeyIdle /\ InitSamplerIdle /\ InitSeedIdle /\ InitLoadIdle
    /\ batch = <<>>
    /\ kval \in 1..MaxK
    /\ reports = <<>>
    /\ summaries = <<>>
    /\ query_result \in HardQueries
    /\ scored = <<>>
    /\ doc_ids = <<>>

NextExtract == ExtractOp \/ MetricOp

SpecExtract == InitExtract /\ [][NextExtract]_vars

---------------------------------------------------------------------------
(* Specification of the test-query source: the pipeline loads the file at
   test_queries_path with _load_test_queries and hands the list to
   _run_dual_evaluation, which evaluates the retrieval of every query and, when
   there is a response generator, hands the list to sample_queries *)

\* the lines a file is made of, without their newline: two query objects, a
\* JSON string, a JSON number, a truncated object and a line of blanks
LineTexts ==
    {"{\"query\": \"q1\"}", " {\"query\": \"q2\"}", "\"text\"", "42",
     "{\"query\": ", "  "}

\* line.strip()
Strip(line) ==
    CASE line = " {\"query\": \"q2\"}" -> "{\"query\": \"q2\"}"
      [] line = "  " -> ""
      [] OTHER -> line

\* the values json.loads gives on the texts of the model
JsonDict(q) == [type |-> "dict", query |-> q, text |-> ""]
JsonStr2(t) == [type |-> "str", query |-> "", text |-> t]
JsonInt == [type |-> "int", query |-> "", text |-> ""]
NoValue == [type |-> "none", query |-> "", text |-> ""]

\* json.loads(text): a value, or JSONDecodeError
JsonLoads(text) ==
    CASE text = "{\"query\": \"q1\"}" -> [raised |-> FALSE, value |-> JsonDict("q1")]
      [] text = "{\"query\": \"q2\"}" -> [raised |-> FALSE, value |-> JsonDict("q2")]
      [] text = "\"text\"" -> [raised |-> FALSE, value |-> JsonStr2("text")]
      [] text = "42" -> [raised |-> FALSE, value |-> JsonInt]
      [] OTHER -> [raised |-> TRUE, value |-> NoValue]

\* the loop of _load_test_queries over the lines that are left: the list it
\* builds, unless json.loads raises on the way
RECURSIVE LoadLines(_, _)
LoadLines(lines, queries) ==
    IF Len(lines) = 0 THEN [state |-> "loaded", queries |-> queries]
    ELSE LET query_data == JsonLoads(Strip(Head(lines)))
         IN IF query_data.raised THEN [state |-> "raised", queries |-> <<>>]
            ELSE LoadLines(Tail(lines), Append(queries, query_data.value))

\* the element passes the checks at the head of the retrieval loop: a str is
\* parsed again, and what is not a dict with a 'query' is skipped
AcceptedByRetrievalLoop(query_data) ==
    LET parsed == IF query_data.type = "str" THEN JsonLoads(query_data.text)
                  ELSE [raised |-> FALSE, value |-> query_data]
    IN ~parsed.raised /\ parsed.value.type = "dict"

\* _load_test_queries() on an existing file
LoadTestQueries ==
    /\ test_queries.state = "none"
    /\ test_queries' = LoadLines(file_lines, <<>>)
    /\ UNCHANGED <<file_lines, has_generator, to_evaluator, to_sampler,
                   cacheVars, keyVars, samplerVars, seedVars, evalVars, scoreVars, runVars>>

\* _run_dual_evaluation(test_queries, components), when the load has returned
RunDualEvaluation ==
    /\ test_queries.state = "loaded"
    /\ ~to_evaluator.called
    /\ to_evaluator' = [called |-> TRUE,
                        queries |-> SelectSeq(test_queries.queries, AcceptedByRetrievalLoop)]
    /\ to_sampler' = IF has_generator
                     THEN [called |-> TRUE, queries |-> test_queries.queries]
                     ELSE to_sampler
    /\ UNCHANGED <<file_lines, has_generator, test_queries,
                   cacheVars, keyVars, samplerVars, seedVars, evalVars, scoreVars, runVars>>

InitLoad ==
    /\ InitCache /\ InitKeyIdle /\ InitSamplerIdle /\ InitSeedIdle /\ InitEvalIdle
    /\ InitScoreIdle
    /\ file_lines \in SeqsUpTo(LineTexts, MaxLines)
    /\ has_generator \in BOOLEAN
    /\ test_queries = NotLoaded
    /\ to_evaluator = NotCalled
    /\ to_sampler = NotCalled
    /\ runs = <<>>

NextLoad == LoadTestQueries \/ RunDualEvaluation

SpecLoad == InitLoad /\ [][NextLoad]_vars

---------------------------------------------------------------------------
(* Specification of the experiment runs that share a cache directory: each
   run calls _process_documents, which loads the entry of its key or computes
   the embeddings and saves them; the save may fail or the process may die in
   it, and an entry may be deleted between two runs *)

\* what chunking and embedding the documents of a run give
RunOutputs ==
    {[docs |-> <<>>, embs |-> <<>>],
     [docs |-> <<"b">>, embs |-> <<(<<1>>)>>],
     [docs |-> <<"a", "b">>, embs |-> <<(<<2>>), (<<1>>)>>]}

\* a _process_documents that never looks into the cache: it computes the
\* embeddings and saves them in every run
ProcessDocumentsAlwaysComputes ==
    /\ pc = "idle"
    /\ Len(runs) < MaxRuns
    /\ \E cache_key \in Keys, out \in RunOutputs :
          /\ runs' = Append(runs,
                 [cache_key |-> cache_key, embedded |-> TRUE, status |-> "computed",
                  documents |-> out.docs, embeddings |-> out.embs])
          /\ store' = Mkdir(store, cache_key)
          /\ cur' = [key |-> cache_key, docs |-> out.docs, embs |-> out.embs]
    /\ pc' = "mkdir"
    /\ last' = NoOp
    /\ nSaves' = nSaves + 1
    /\ UNCHANGED <<now, history, keyVars, samplerVars, seedVars, evalVars, scoreVars,
                   loadVars>>

\* _process_documents up to its return or to the mkdir of its save: on a hit
\* the entry is loaded (an exception of load ends the run), on a miss the
\* embeddings are computed and save is called, its exceptions being caught
ProcessDocuments ==
    /\ pc = "idle"
    /\ Len(runs) < MaxRuns
    /\ \E cache_key \in Keys, out \in RunOutputs :
          IF Exists(store, cache_key)
          THEN /\ runs' = Append(runs,
                      [cache_key |-> cache_key, embedded |-> FALSE,
                       status |-> IF Load(store, cache_key).status = "ok"
                                  THEN "loaded" ELSE "raised",
                       documents |-> Load(store, cache_key).documents,
                       embeddings |-> Load(store, cache_key).embeddings])
               /\ UNCHANGED <<store, pc, cur, last, nSaves>>
          ELSE /\ runs' = Append(runs,
                      [cache_key |-> cache_key, embedded |-> TRUE,
                       status |-> "computed",
                       documents |-> out.docs, embeddings |-> out.embs])
               /\ store' = Mkdir(store, cache_key)
               /\ cur' = [key |-> cache_key, docs |-> out.docs, embs |-> out.embs]
               /\ pc' = "mkdir"
               /\ last' = NoOp
               /\ nSaves' = nSaves + 1
    /\ UNCHANGED <<now, history, keyVars, samplerVars, seedVars, evalVars, scoreVars,
                   loadVars>>

NextRuns ==
    \/ ProcessDocuments
    \/ SaveOpenDocs
    \/ SaveDumpDocs
    \/ SaveOpenEmb
    \/ SaveWriteEmb
    \/ SaveOpenMeta
    \/ SaveDumpMeta
    \/ SaveFail
    \/ Crash
    \/ DeleteOp(Keys)

SpecRuns == Init /\ [][NextRuns]_vars

---------------------------------------------------------------------------
(* Specification of the batch evaluation with one malformed record: a batch
   of one well-formed query and one record that may lack its query_id, its
   metrics or a usable document metadata is given to evaluate and to
   evaluate_all_queries *)

\* the records of a batch: a query result, whether the result dict made of it
\* for evaluate_all_queries has a "query_id", and whether its "metrics" is the
\* dict of evaluate_query, is missing or is null
BatchRecords ==
    [retrieved_docs : SeqsUpTo({DocA, DocN, DocNoMeta, DocNullMeta}, MaxHard),
     ground_truth_docs : {<<>>, <<"A">>},
     query_id : BOOLEAN,
     metrics : {"dict", "absent", "null"}]

\* a well-formed record with a hit at rank 1
GoodRecord ==
    [retrieved_docs |-> <<DocA, DocN>>, ground_truth_docs |-> <<"A">>,
     query_id |-> TRUE, metrics |-> "dict"]

\* result.get("metrics", {}) of a record whose metrics is not null
ResultMetrics(result) ==
    IF result.metrics = "dict"
    THEN EvaluateQuery(RetrievedRecIdxs(result), result.ground_truth_docs)
    ELSE [m \in {} |-> 0]

\* metrics.get(metric_name, 0.0)
MetricOrZero(metrics, m) == IF m \in DOMAIN metrics THEN metrics[m] ELSE 0

\* evaluate_all_queries(results) on a list that is not empty: result["query_id"]
\* raises KeyError on a record without the key, and None has no get
EvaluateAllResults(results) ==
    IF \E i \in 1..Len(results) : ~results[i].query_id \/ results[i].metrics = "null"
    THEN [raised |-> TRUE, total_queries |-> 0, average_metrics |-> <<>>,
          per_query_metrics |-> <<>>]
    ELSE [raised |-> FALSE,
          total_queries |-> Len(results),
          average_metrics |->
              [m \in MetricNames |->
                  Sum([i \in 1..Len(results) |-> MetricOrZero(ResultMetrics(results[i]), m)])
                      \div Len(results)],
          per_query_metrics |-> [i \in 1..Len(results) |-> ResultMetrics(results[i])]]

\* SearchMetricsEvaluator(k_values=[kval]).evaluate(batch): the results, or
\* the exception of a metric function, which evaluate does not catch
EvaluateBatch ==
    /\ Len(batch) > 0
    /\ reports = <<>>
    /\ reports' = <<IF EvaluateRaises(batch, kval)
                    THEN [raised |-> TRUE, results |-> <<>>]
                    ELSE [raised |-> FALSE, results |-> Evaluate(batch, kval)]>>
    /\ UNCHANGED <<batch, kval, summaries, cacheVars, keyVars, samplerVars, seedVars,
                   scoreVars, loadVars, runVars>>

\* RetrieverEvaluator.evaluate_all_queries on the result dicts of the batch
EvaluateAllBatch ==
    /\ Len(batch) > 0
    /\ summaries = <<>>
    /\ summaries' = <<EvaluateAllResults(batch)>>
    /\ UNCHANGED <<batch, kval, reports, cacheVars, keyVars, samplerVars, seedVars,
                   scoreVars, loadVars, runVars>>

InitBatch ==
    /\ InitCache /\ InitKeyIdle /\ InitSamplerIdle /\ InitSeedIdle /\ InitScoreIdle
    /\ InitLoadIdle
    /\ \E record \in BatchRecords :
          batch \in {<<record>>, <<GoodRecord, record>>, <<record, GoodRecord>>}
    /\ kval \in 1..MaxK
    /\ reports = <<>>
    /\ summaries = <<>>

NextBatch == EvaluateBatch \/ EvaluateAllBatch

SpecBatch == InitBatch /\ [][NextBatch]_vars

---------------------------------------------------------------------------
(* Specification of the store under the keys of three configurations, one of
   whose model names has a "/": saves, failing saves and deletes *)

\* model "a" and model "a-fixed/a" with the fixed chunker: the key of the
\* second is a path under the directory of the first; model "a/a" for a third
FrameConfigs ==
    {[model_name |-> m, type |-> FixedType, chunk_size |-> None, chunk_overlap |-> None] :
        m \in {<<"a">>, <<"a", "-", "f", "i", "x", "e", "d", "/", "a">>, <<"a", "/", "a">>}}

FrameKeys == {GenerateCacheKey(cfg) : cfg \in FrameConfigs}

InitFrame ==
    /\ store = [k \in FrameKeys |-> NoDir]
    /\ pc = "idle"
    /\ cur = NoCur
    /\ now = 0
    /\ last = NoOp
    /\ history = [k \in FrameKeys |-> <<>>]
    /\ nSaves = 0
    /\ InitKeyIdle /\ InitSamplerIdle /\ InitSeedIdle /\ InitEvalIdle /\ InitScoreIdle
    /\ InitLoadIdle

NextFrame ==
    \/ SaveBegin(FrameKeys, SmallDocs, SmallEmbs)
    \/ SaveOpenDocs
    \/ SaveDumpDocs
    \/ SaveOpenEmb
    \/ SaveWriteEmb
    \/ SaveOpenMeta
    \/ SaveDumpMeta
    \/ SaveFail
    \/ DeleteOp(FrameKeys)

SpecFrame == InitFrame /\ [][NextFrame]_vars

---------------------------------------------------------------------------
(* Properties of the cache store *)

Intact(st, k) ==
    Readable(st[k].docs) /\ Readable(st[k].emb) /\ Readable(st[k].meta)

\* C1: in every state of the store, also between the writes of a save and
\* after an interrupted save, exists(key) true implies that load(key)
\* returns a complete (documents, embeddings) pair without error.
C1_ExistsImpliesLoad ==
    \A k \in Keys : Exists(store, k) => Load(store, k).status = "ok"

\* C2: after a crash of save(key, ...) that came after the documents file was
\* written and before the embeddings file was written, exists(key) is false,
\* whatever the key held before the save.
C2_CrashAfterDocsLeavesNoEntry ==
    (last.op = "crash" /\ last.at = "docs_done") => ~Exists(store, last.key)

C4_RoundTrip ==
    (last.op = "save" /\ last.result = "ok" /\ Len(last.docs) = Len(last.embs)) =>
        Load(store, last.key) =
            [status |-> "ok", documents |-> last.docs, embeddings |-> last.embs]

\* C4 witness: two different documents and two different vectors came back
C4_Witness ==
    /\ last.op = "save"
    /\ last.result = "ok"
    /\ last.docs = <<"a", "b">>
    /\ last.embs = <<(<<2>>), (<<1>>)>>
    /\ Load(store, last.key).documents = <<"a", "b">>
    /\ Load(store, last.key).embeddings = <<(<<2>>), (<<1>>)>>

\* C5: after a sequence of successful saves to one key, load(key) returns the
\* documents and embeddings of the most recent save, and the metadata is that
\* of the most recent save: nothing of an earlier save is left.
C5_LastSaveWins ==
    (last.op = "save" /\ last.result = "ok" /\ Len(history[last.key]) >= 2) =>
        /\ Load(store, last.key).status = "ok"
        /\ Load(store, last.key).documents = last.docs
        /\ Load(store, last.key).embeddings = last.embs
        /\ GetMetadata(store, last.key).meta.document_count = Len(last.docs)
        /\ history[last.key][Len(history[last.key])] =
              [docs |-> last.docs, embs |-> last.embs]

\* C5 witness: the second successful save to a key, with other documents and
\* other embeddings than the first
C5_Witness ==
    /\ last.op = "save"
    /\ last.result = "ok"
    /\ Len(history[last.key]) = 2
    /\ history[last.key][1].docs # last.docs
    /\ history[last.key][1].embs # last.embs
    /\ Len(history[last.key][1].docs) > Len(last.docs)
    /\ Load(store, last.key).documents = last.docs

\* C6: exists(key) is true if and only if all three files are present and
\* each can be decoded.
C6_ExistsIffIntact ==
    \A k \in Keys :
        Exists(store, k) <=>
            (FileExists(store[k].docs) /\ FileExists(store[k].emb)
             /\ FileExists(store[k].meta) /\ Intact(store, k))

\* C7: delete(key) returns true exactly when exists(key) was true before the
\* call, and after it returned true exists(key) is false.
C7_DeleteReturnsWhetherEntryExisted ==
    last.op = "delete" =>
        /\ (last.result = "true") <=> last.pre
        /\ (last.result = "true") => ~Exists(store, last.key)

\* C8: list returns one summary for every key for which exists(key) is true
\* and for no other key, ordered by creation time, newest first.
C8_ListIsTheExistingEntries ==
    last.op = "list" =>
        /\ {last.listing[i].cache_key : i \in 1..Len(last.listing)}
              = {k \in Keys : Exists(store, k)}
        /\ \A i, j \in 1..Len(last.listing) :
              i # j => last.listing[i].cache_key # last.listing[j].cache_key
        /\ \A i, j \in 1..Len(last.listing) :
              i < j => last.listing[i].metadata.created_at
                          >= last.listing[j].metadata.created_at

\* C9: every entry a save created holds one embedding vector per document and
\* its metadata document_count is that number (a save of lists of different
\* lengths creates no entry).
C9_OneVectorPerDocument ==
    (last.op = "save" /\ last.result = "ok") =>
        /\ Len(Load(store, last.key).embeddings) = Len(Load(store, last.key).documents)
        /\ GetMetadata(store, last.key).meta.document_count
              = Len(Load(store, last.key).embeddings)

---------------------------------------------------------------------------
(* Properties of the key derivation *)

\* the two configurations differ in a field the key is derived from
DifferInKeyFields(a, b) ==
    \/ a.model_name # b.model_name
    \/ a.type # b.type
    \/ /\ a.type # NoChunkType
       /\ \/ a.chunk_size # b.chunk_size
          \/ a.chunk_overlap # b.chunk_overlap

\* C10: two configurations that differ in the model name, in the chunker type
\* or (chunker other than no_chunk) in chunk_size or chunk_overlap, one of them
\* possibly absent, have different cache keys.
C10_KeysAreCollisionFree ==
    (keyA # <<>> /\ keyB # <<>> /\ DifferInKeyFields(cfgA, cfgB)) => keyA # keyB

\* C11: the generated cache key is a single path segment: it holds no path
\* separator, whatever the model name and the chunker configuration.
C11_KeyIsOnePathSegment ==
    keyA # <<>> => \A i \in 1..Len(keyA) : keyA[i] # "/"

\* C12: generate_cache_key returns a key only for a configuration whose model
\* name and chunker type are both non-empty (it fails on the others).
C12_EmptyFieldsAreRejected ==
    keyA # <<>> => (cfgA.model_name # <<>> /\ cfgA.type # EmptyType)

---------------------------------------------------------------------------
(* Properties of the sampler *)

\* the number of distinct profile hashes of the query list
AvailableProfiles == Len(ProfileHashes(all_queries))

\* the profile hashes of the queries of a list are pairwise distinct
DistinctProfiles(queries) ==
    \A i, j \in 1..Len(queries) :
        i # j => QueryHash(queries[i]) # QueryHash(queries[j])

\* the items of a list are items of the query list
FromTheList(queries) ==
    \A i \in 1..Len(queries) : \E j \in 1..Len(all_queries) : queries[i] = all_queries[j]

\* C13: with sample_size at most the number of distinct profile hashes of the
\* list, profile-based sample_queries returns exactly sample_size queries of
\* the list, their profile hashes pairwise distinct.
C13_SampleHasDistinctProfiles ==
    \A c \in 1..Len(calls) :
        (strategy = "profile_based" /\ sample_size <= AvailableProfiles) =>
            /\ ~calls[c].raised
            /\ Len(calls[c].out) = sample_size
            /\ DistinctProfiles(calls[c].out)
            /\ FromTheList(calls[c].out)

\* a profile-based call that had to choose: two queries of the list share a
\* profile hash, and two or more profiles were asked for
C13_Witness ==
    /\ Len(calls) >= 1
    /\ strategy = "profile_based"
    /\ sample_size >= 2
    /\ sample_size <= AvailableProfiles
    /\ AvailableProfiles < Len(all_queries)

\* C14: two sample_queries calls under the same seed (on the same query list,
\* sample size and strategy) return the same queries in the same order,
\* whether they are calls of two samplers or of one, and whatever was drawn
\* from the generator in between.
C14_SameSeedSameSample ==
    \A c, d \in 1..Len(calls) :
        (calls[c].seed.some /\ calls[c].seed = calls[d].seed) =>
            (calls[c].raised = calls[d].raised /\ calls[c].out = calls[d].out)

\* C15: with sample_size above the number of distinct profiles, profile-based
\* sample_queries returns exactly one query per distinct profile, also on a
\* list of fewer queries than sample_size.
C15_UnderflowReturnsOnePerProfile ==
    \A c \in 1..Len(calls) :
        (strategy = "profile_based" /\ sample_size > AvailableProfiles) =>
            /\ ~calls[c].raised
            /\ Len(calls[c].out) = AvailableProfiles
            /\ DistinctProfiles(calls[c].out)

\* C16 as stated: with the number of partitions at most sample_size,
\* profile-based sample_queries returns the query list unchanged.
C16_FullListWhenFewPartitions ==
    \A c \in 1..Len(calls) :
        (strategy = "profile_based" /\ AvailableProfiles <= sample_size) =>
            (~calls[c].raised /\ calls[c].out = all_queries)

\* C16, amended: with the number of partitions at most sample_size and one
\* query in each partition (the list is no longer than sample_size),
\* profile-based sample_queries returns the query list unchanged.
C16_FullListWhenFewQueries ==
    \A c \in 1..Len(calls) :
        (/\ strategy = "profile_based"
         /\ AvailableProfiles <= sample_size
         /\ AvailableProfiles = Len(all_queries)) =>
            (~calls[c].raised /\ calls[c].out = all_queries)

\* a profile-based call on two or more queries of distinct profiles, no more
\* than sample_size
C16_Witness ==
    /\ Len(calls) >= 1
    /\ strategy = "profile_based"
    /\ Len(all_queries) >= 2
    /\ AvailableProfiles = Len(all_queries)
    /\ AvailableProfiles <= sample_size

\* the grouping of _profile_based_sampling has run on the query list
Grouped ==
    /\ Len(calls) >= 1
    /\ strategy = "profile_based"
    /\ Len(all_queries) > sample_size

\* two queries of the list are in the same profile group: the group of the
\* hash of the one holds the other
SamePartition(i, j) ==
    LET group == ProfileGroup(all_queries, QueryHash(all_queries[i]))
    IN \E n \in 1..Len(group) : group[n] = all_queries[j]

\* two profiles have the same keys with the same values, in whatever key
\* order: their serializations with sorted keys are the same text
SameCanonicalText(p1, p2) ==
    {p1[n] : n \in 1..Len(p1)} = {p2[n] : n \in 1..Len(p2)}

\* C18 as stated: two queries are in the same partition if and only if the
\* canonical serializations of their profiles are identical.
C18_PartitionIffSameProfile ==
    Grouped =>
        \A i, j \in 1..Len(all_queries) :
            SamePartition(i, j) <=>
                SameCanonicalText(all_queries[i].user_profile,
                                  all_queries[j].user_profile)

\* C18, amended: two queries whose profiles have identical canonical
\* serializations (the same keys and values, in whatever key order) are in the
\* same partition, and two queries in the same partition have profiles whose
\* canonical serializations are identical or have MD5 digests with the same
\* first eight digits.
C18_PartitionIffSameDigestPrefix ==
    Grouped =>
        \A i, j \in 1..Len(all_queries) :
            LET pi == all_queries[i].user_profile
                pj == all_queries[j].user_profile
            IN /\ SameCanonicalText(pi, pj) => SamePartition(i, j)
               /\ SamePartition(i, j) =>
                     \/ SameCanonicalText(pi, pj)
                     \/ Md5Hex8(JsonDumpsDict(pi)) = Md5Hex8(JsonDumpsDict(pj))

\* the grouping has run on a list that holds a profile in both key orders
\* and the same profile with its list elements reordered
C18_Witness ==
    /\ Grouped
    /\ \E i, j, n \in 1..Len(all_queries) :
          /\ all_queries[i].user_profile = ProfileA
          /\ all_queries[j].user_profile = ProfileA2
          /\ all_queries[n].user_profile = ProfileB
          /\ SamePartition(i, j)
          /\ ~SamePartition(i, n)

---------------------------------------------------------------------------
(* Properties of the seed derivation *)

\* two config dicts hold the same sections with the same fields and values,
\* in whatever key order
SameConfig(a, b) ==
    /\ Len(a) = Len(b)
    /\ \A i \in 1..Len(a) : \E j \in 1..Len(b) :
          /\ a[i].key = b[j].key
          /\ {a[i].dict[n] : n \in 1..Len(a[i].dict)}
                = {b[j].dict[n] : n \in 1..Len(b[j].dict)}

\* C17: with no sample seed configured, two configurations with the same
\* embedder, chunker and retriever field values get the same seed, whatever
\* the order of the keys in their maps, and the seed lies in 0..99999.
C17_SeedIsAFunctionOfTheFields ==
    /\ seedA.some => seedA.val \in 0..(SeedModulus - 1)
    /\ (seedA.some /\ seedB.some /\ SameConfig(seedCfgA, seedCfgB)) => seedA = seedB

\* the seeds of two configurations of the same field values whose maps list
\* their keys in different orders
C17_Witness ==
    /\ seedA.some
    /\ seedB.some
    /\ SameConfig(seedCfgA, seedCfgB)
    /\ seedCfgA # seedCfgB

---------------------------------------------------------------------------
(* Properties of the evaluators *)

\* the batch was evaluated, a query without ground truth was added to it, and
\* it was evaluated again
EmptyTruthQueryAdded(evaluations) ==
    /\ Len(evaluations) = 2
    /\ Len(batch[Len(batch)].ground_truth_docs) = 0

\* C19: a query with an empty ground truth counts in neither the Recall@k nor
\* the Precision@k average, and each average comes with the number of queries
\* it includes: after such a query is added to a batch, the averages and the
\* counts reported with them are what they were before.
C19_EmptyTruthQueryIsNotCounted ==
    /\ EmptyTruthQueryAdded(reports) =>
          \A i \in {1, 2} :
              /\ reports[2][i].score = reports[1][i].score
              /\ reports[2][i].total_queries = reports[1][i].total_queries
    /\ EmptyTruthQueryAdded(summaries) =>
          /\ \A m \in {"recall@20", "precision@3", "precision@5"} :
                summaries[2].average_metrics[m] = summaries[1].average_metrics[m]
          /\ summaries[2].total_queries = summaries[1].total_queries

\* C20: every score of the evaluators, of one query or averaged, lies between
\* 0 and 1, whatever the retrieved list (a document id may occur at several
\* ranks) and the ground truth.
C20_ScoresAreBetween0And1 ==
    /\ \A r \in 1..Len(reports) : \A i \in 1..Len(reports[r]) :
          reports[r][i].score \in 0..One
    /\ \A r \in 1..Len(summaries) : \A m \in MetricNames :
          /\ summaries[r].average_metrics[m] \in 0..One
          /\ \A q \in 1..Len(summaries[r].per_query_metrics) :
                summaries[r].per_query_metrics[q][m] \in 0..One

---------------------------------------------------------------------------
(* Properties of the scores of one query *)

\* C21: for a fixed retrieved list and a fixed ground truth, Recall@k does not
\* decrease when k grows (k a window size, 0 or more), in both evaluators.
C21_RecallIsMonotone ==
    \A k1 \in DOMAIN scored : \A k2 \in DOMAIN scored :
        k1 <= k2 =>
            /\ scored[k1].recall <= scored[k2].recall
            /\ scored[k1].r_recall <= scored[k2].r_recall

\* a query whose recall is scored at two k and grows from one to the other
C21_Witness ==
    \E k1 \in DOMAIN scored : \E k2 \in DOMAIN scored :
        /\ k1 < k2
        /\ scored[k1].recall < scored[k2].recall
        /\ scored[k1].r_recall < scored[k2].r_recall

\* the ids an evaluator sees at the first ranks of the scored query
SearchIds(n) == [i \in 1..n |-> ExtractDocId(query_result.retrieved_docs[i])]
RetrieverIds(n) == [i \in 1..n |-> query_result.retrieved_docs[i].rec_idx]

\* the first |ground_truth| ids of a retrieved list are the ground truth, in
\* any order
PerfectRank(ids(_)) ==
    LET gt == query_result.ground_truth_docs
    IN /\ Len(gt) >= 1
       /\ Cardinality(SetOf(gt)) = Len(gt)
       /\ Len(query_result.retrieved_docs) >= Len(gt)
       /\ SetOf(ids(Len(gt))) = SetOf(gt)

\* C22: when the first |ground_truth| retrieved ids are exactly the ground
\* truth and k >= |ground_truth| >= 1, NDCG@k, Recall@k and MRR are 1 in both
\* evaluators; NDCG@k is 0 when the ideal DCG is 0.
C22_PerfectRankScoresOne ==
    \A k \in DOMAIN scored :
        /\ (PerfectRank(SearchIds) /\ k >= Len(query_result.ground_truth_docs)) =>
              /\ scored[k].ndcg = One
              /\ scored[k].recall = One
              /\ scored[k].mrr = One
        /\ (PerfectRank(RetrieverIds) /\ k >= Len(query_result.ground_truth_docs)) =>
              /\ scored[k].r_ndcg = One
              /\ scored[k].r_recall = One
              /\ scored[k].r_mrr = One
        /\ CalculateIdealDcgAtK(query_result, k) = 0 => scored[k].ndcg = 0
        /\ Min(Len(query_result.ground_truth_docs), k) = 0 => scored[k].r_ndcg = 0

\* the rank holds a ground-truth id and no rank before it does
FirstHit(ids(_), rank) ==
    LET gt == SetOf(query_result.ground_truth_docs)
        n == Len(query_result.retrieved_docs)
    IN /\ rank \in 1..n
       /\ ids(n)[rank] \in gt
       /\ \A r \in 1..(rank - 1) : ids(n)[r] \notin gt

\* C23: MRR@k of a query is 1/r, r the 1-based rank of the first retrieved id
\* that is in the ground truth, when r <= k, and 0 when no ground-truth id is
\* among the first k retrieved ids; a first hit at rank 2 gives 0.5.  The mrr
\* of the SearchMetricsEvaluator is the same with the whole list as window.
C23_MrrIsReciprocalOfFirstHit ==
    \A k \in DOMAIN scored :
        /\ \A r \in 1..k : FirstHit(RetrieverIds, r) => scored[k].r_mrr = Ratio(1, r)
        /\ (k >= 2 /\ FirstHit(RetrieverIds, 2)) => 2 * scored[k].r_mrr = One
        /\ (\A r \in 1..k : ~FirstHit(RetrieverIds, r)) => scored[k].r_mrr = 0
        /\ \A r \in 1..Len(query_result.retrieved_docs) :
              FirstHit(SearchIds, r) => scored[k].mrr = Ratio(1, r)
        /\ (\A r \in 1..Len(query_result.retrieved_docs) : ~FirstHit(SearchIds, r))
              => scored[k].mrr = 0

\* MRR@k is scored for a query whose first hit is at rank 2, with another
\* hit after it, and at a k that leaves the first hit out
C23_Witness ==
    /\ FirstHit(RetrieverIds, 2)
    /\ Len(query_result.retrieved_docs) >= 3
    /\ query_result.retrieved_docs[3].rec_idx \in SetOf(query_result.ground_truth_docs)
    /\ DOMAIN scored = 0..MaxK
    /\ scored[1].r_mrr = 0
    /\ scored[MaxK].r_mrr = Ratio(1, 2)

\* |retrieved[:k] & ground_truth| for the ids an evaluator sees
HitsInWindow(ids(_), k) ==
    Cardinality(SetOf(ids(Min(k, Len(query_result.retrieved_docs))))
                    \cap SetOf(query_result.ground_truth_docs))

\* C24: Precision@k is the documented formula of its evaluator on every
\* input: in the RetrieverEvaluator |retrieved[:k] & ground_truth| / k, also
\* when fewer than k items were retrieved; in the SearchMetricsEvaluator
\* |retrieved[:k] & ground_truth| / min(k, |retrieved[:k]|), retrieved[:k]
\* counting every item of the top-k window.
C24_PrecisionFollowsItsFormula ==
    \A k \in DOMAIN scored :
        /\ k >= 1 => scored[k].r_precision = Ratio(HitsInWindow(RetrieverIds, k), k)
        /\ (k >= 1 /\ Len(query_result.retrieved_docs) >= 1) =>
              scored[k].precision =
                  Ratio(HitsInWindow(SearchIds, k),
                        Min(k, Len(query_result.retrieved_docs)))

---------------------------------------------------------------------------
(* Properties of the document-id extraction *)

\* the id the preference order gives: rec_idx, else id, else filename, of a
\* metadata that is a dict; "" is no id
PreferredId(doc) ==
    IF doc.metadata # "dict" THEN ""
    ELSE IF doc.rec_idx # "" THEN doc.rec_idx
    ELSE IF doc.id # "" THEN doc.id
    ELSE doc.filename

\* the query with each document that has no id replaced by one whose metadata
\* is an empty dict
WithoutIdless(qr) ==
    [qr EXCEPT !.retrieved_docs =
        [i \in 1..Len(qr.retrieved_docs) |->
            IF PreferredId(qr.retrieved_docs[i]) = "" THEN DocN
            ELSE qr.retrieved_docs[i]]]

\* C25: the document id of a retrieved item is its rec_idx if non-empty, else
\* its id, else its filename; an item with none of them, without metadata or
\* with a null metadata is not relevant in any metric, and neither the id
\* extraction nor a metric raises an exception on it.
C25_ExtractionNeverRaises ==
    /\ \A i \in 1..Len(doc_ids) :
          /\ ~doc_ids[i].raised
          /\ doc_ids[i].doc_id = PreferredId(query_result.retrieved_docs[i])
    /\ \A j \in 1..Len(scored) :
          /\ ~scored[j].raised
          /\ scored[j].score =
                 MetricScore(<<WithoutIdless(query_result)>>, scored[j].metric, kval)

---------------------------------------------------------------------------
(* Properties of the test-query source *)

\* the line holds a query object
WellFormed(line) ==
    /\ ~JsonLoads(Strip(line)).raised
    /\ JsonLoads(Strip(line)).value.type = "dict"

\* the query objects of the well-formed lines of the file, in order
WellFormedQueries ==
    LET kept == SelectSeq(file_lines, WellFormed)
    IN [i \in 1..Len(kept) |-> JsonLoads(Strip(kept[i])).value]

\* C26: for every file, the malformed and the non-object lines are skipped
\* and the well-formed lines are loaded; the list handed to sample_queries and
\* the queries the retrieval loop evaluates are query objects only.
C26_MalformedLinesAreSkipped ==
    /\ test_queries.state # "none" =>
          /\ test_queries.state = "loaded"
          /\ test_queries.queries = WellFormedQueries
    /\ to_sampler.called =>
          \A i \in 1..Len(to_sampler.queries) : to_sampler.queries[i].type = "dict"
    /\ to_evaluator.called =>
          \A i \in 1..Len(to_evaluator.queries) : to_evaluator.queries[i].type = "dict"

---------------------------------------------------------------------------
(* Properties of the experiment runs *)

\* the entry of the last successful save to the key is in the store
Standing(k) ==
    /\ Len(history[k]) > 0
    /\ Load(store, k) = [status |-> "ok",
                         documents |-> history[k][Len(history[k])].docs,
                         embeddings |-> history[k][Len(history[k])].embs]

---------------------------------------------------------------------------
(* Properties of the batch evaluation *)

\* C28: one malformed record does not prevent scoring the rest: when one
\* record of the batch lacks its query_id, its metrics or a usable document
\* metadata, evaluate and evaluate_all_queries complete, evaluate reports its
\* five scores and evaluate_all_queries the metrics of the well-formed queries.
C28_OneBadRecordDoesNotAbortTheBatch ==
    /\ \A r \in 1..Len(reports) :
          /\ ~reports[r].raised
          /\ Len(reports[r].results) = Len(SearchMetrics)
    /\ \A r \in 1..Len(summaries) :
          /\ ~summaries[r].raised
          /\ summaries[r].total_queries = Len(batch)
          /\ \A i \in 1..Len(batch) :
                batch[i] = GoodRecord =>
                    summaries[r].per_query_metrics[i] = ResultMetrics(GoodRecord)

---------------------------------------------------------------------------
(* Properties of the sampler's strategy argument *)

\* C29: sample_queries called with a strategy other than "profile_based" and
\* "random" fails with the unsupported-strategy error, whatever the query list
\* and the sample size, and returns no sample.
C29_UnsupportedStrategyIsRejected ==
    \A c \in 1..Len(calls) :
        strategy \notin {"profile_based", "random"} =>
            (calls[c].raised /\ calls[c].out = <<>>)

---------------------------------------------------------------------------
(* Frame property of the cache operations *)

\* the key the step works on: that of the save in progress or begun, or that
\* of the delete
StepKey == IF pc # "idle" THEN cur.key ELSE IF pc' # "idle" THEN cur'.key ELSE last'.key

\* C30: a cache operation on one key leaves the entries of the other keys as
\* they are: for two different keys k1, k2 that generate_cache_key can give, no
\* step of a save on k1 (succeeding or failing, with its cleanup) and no delete
\* of k1 changes exists(k2) or what load(k2) returns.
C30_OtherKeysAreUntouched ==
    [][\A k2 \in DOMAIN store :
          k2 # StepKey =>
              /\ Exists(store', k2) = Exists(store, k2)
              /\ Load(store', k2) = Load(store, k2)
      ]_vars

====
